---- MODULE Spec2Model ----
(***************************************************************************)
(* The SAT question ingestion pipeline of                                  *)
(* backend/app/pipelines/question_ingestion.py: the LangGraph workflow     *)
(* load_pdf -> parse_answer_key -> split_pages -> (llm_extract_node ->     *)
(* [llm_fallback_node ->] assemble_json)* -> END, its GraphState, the      *)
(* global rate limiter, and the text functions the nodes call.             *)
(*                                                                         *)
(* Text is a sequence of one-character strings.  Time is counted in half   *)
(* seconds, so that RATE_LIMIT_DELAY = 4.5 s is the integer 9.             *)
(***************************************************************************)
EXTENDS Integers, Sequences, FiniteSets, TLC

VARIABLES
    node,               \* the node LangGraph runs next ("END": the graph finished)
    run,                \* "running" | "finished" | "GraphRecursionError"
    steps,              \* super-steps executed by app.invoke so far
    raw_pages,          \* GraphState.raw_pages
    answer_pages,       \* GraphState.answer_pages
    chunks,             \* GraphState.chunks
    parsed,             \* GraphState.parsed
    errors,             \* GraphState.errors
    current_chunk_index,\* GraphState.current_chunk_index
    parsing_status,     \* GraphState.parsing_status
    answer_key,         \* GraphState.answer_key
    last_request_time,  \* module global last_request_time
    now,                \* the wall clock, time.time()
    in_flight,          \* chunk indices whose llm.invoke call has not returned yet
    attempts,           \* history: one entry per extraction attempt, in issue order
    response_content,   \* llm_extract local: the stripped response text
    json_str,           \* llm_extract local: the text handed to json.loads
    record_dict,        \* llm_extract local: validate_and_clean_record's result
    pdf_files,          \* the file system: sat-questions.pdf and sat_answers.pdf
    raw_text,           \* preprocess_math_formatting: its argument text
    processed_text,     \* preprocess_math_formatting: what it returned
    batch               \* batch_process_pdfs: the directory, its locals and its calls

vars == <<node, run, steps, raw_pages, answer_pages, chunks, parsed, errors,
          current_chunk_index, parsing_status, answer_key, last_request_time,
          now, in_flight, attempts, response_content, json_str, record_dict,
          pdf_files, raw_text, processed_text, batch>>

(***************************************************************************)
(* Bounds of the model.                                                    *)
(***************************************************************************)
\* Documents of up to MaxChunks questions are run with every response and
\* every timing; longer documents with one response and one timing only.
MaxChunks == 2
\* The long document has 166 + LongExtra questions.
LongExtra == 4
\* The wall clock when the process starts (time.time() is far beyond the delay).
StartTime == 20
\* The answer-key texts of the model hold the question numbers 0..MaxNumber.
MaxNumber == 2
\* The candidate pages of the model hold 2..MaxMarkers answer-choice markers.
MaxMarkers == 4
\* A directory holds up to MaxFiles files.
MaxFiles == 3

(***************************************************************************)
(* Program constants.                                                      *)
(***************************************************************************)
RATE_LIMIT_DELAY == 9
recursion_limit == 500
MIN_CHUNK_LENGTH == 100
MIN_CHOICES_FOUND == 3
EXCLUSION_WINDOW == 200
DUPLICATE_GAP == 10
ALTERNATIVE_THRESHOLD == 10
SPLITTER_CHUNK_SIZE == 4000

(***************************************************************************)
(* Characters and text.                                                    *)
(***************************************************************************)
Digits == {"0", "1", "2", "3", "4", "5", "6", "7", "8", "9"}
\* the characters of \s and of str.strip() ("FF" stands for the form feed)
Whitespace == {" ", "\n", "\t", "\r", "FF"}

DigitVal(c) ==
    CASE c = "0" -> 0 [] c = "1" -> 1 [] c = "2" -> 2 [] c = "3" -> 3
      [] c = "4" -> 4 [] c = "5" -> 5 [] c = "6" -> 6 [] c = "7" -> 7
      [] c = "8" -> 8 [] c = "9" -> 9

DigitChar(d) ==
    CASE d = 0 -> "0" [] d = 1 -> "1" [] d = 2 -> "2" [] d = 3 -> "3"
      [] d = 4 -> "4" [] d = 5 -> "5" [] d = 6 -> "6" [] d = 7 -> "7"
      [] d = 8 -> "8" [] d = 9 -> "9"

\* str.lower() on one character
Lower(c) ==
    CASE c = "A" -> "a" [] c = "B" -> "b" [] c = "C" -> "c" [] c = "D" -> "d"
      [] c = "E" -> "e" [] c = "F" -> "f" [] c = "G" -> "g" [] c = "H" -> "h"
      [] c = "I" -> "i" [] c = "J" -> "j" [] c = "K" -> "k" [] c = "L" -> "l"
      [] c = "M" -> "m" [] c = "N" -> "n" [] c = "O" -> "o" [] c = "P" -> "p"
      [] c = "Q" -> "q" [] c = "R" -> "r" [] c = "S" -> "s" [] c = "T" -> "t"
      [] c = "U" -> "u" [] c = "V" -> "v" [] c = "W" -> "w" [] c = "X" -> "x"
      [] c = "Y" -> "y" [] c = "Z" -> "z"
      [] OTHER -> c

\* str.upper() on an answer letter
Upper(c) ==
    CASE c = "a" -> "A" [] c = "b" -> "B" [] c = "c" -> "C" [] c = "d" -> "D"
      [] OTHER -> c

\* int(s) for a run of digits
RECURSIVE ParseInt(_)
ParseInt(s) ==
    IF s = << >> THEN 0
    ELSE 10 * ParseInt(SubSeq(s, 1, Len(s) - 1)) + DigitVal(s[Len(s)])

\* str(n) for n >= 0
RECURSIVE FormatInt(_)
FormatInt(n) ==
    IF n < 10 THEN <<DigitChar(n)>>
    ELSE FormatInt(n \div 10) \o <<DigitChar(n % 10)>>

\* c repeated n times
Rep(c, n) == [i \in 1..n |-> c]

\* the first index j >= i of t with t[j] \notin S (Len(t) + 1 when there is none)
SkipWhile(t, i, S) ==
    CHOOSE j \in i..(Len(t) + 1) :
        /\ (j = Len(t) + 1 \/ t[j] \notin S)
        /\ \A k \in i..(j - 1) : t[k] \in S

\* word matched at index i of t: the index after it, or 0; ci: ignoring case
MatchLit(t, i, word, ci) ==
    IF /\ i >= 1
       /\ i + Len(word) - 1 <= Len(t)
       /\ \A k \in 1..Len(word) :
            IF ci THEN Lower(t[i + k - 1]) = Lower(word[k])
                  ELSE t[i + k - 1] = word[k]
    THEN i + Len(word)
    ELSE 0

\* one or more characters of S from index i: the index after them, or 0
Many1(t, i, S) ==
    IF i >= 1 /\ i <= Len(t) /\ t[i] \in S THEN SkipWhile(t, i, S) ELSE 0

\* zero or more characters of S from index i (0 stays 0)
Many0(t, i, S) == IF i = 0 THEN 0 ELSE SkipWhile(t, i, S)

\* an optional character of S at index i (0 stays 0)
Opt(t, i, S) ==
    IF i = 0 THEN 0
    ELSE IF i <= Len(t) /\ t[i] \in S THEN i + 1 ELSE i

\* '^' under re.MULTILINE: index i is at the start of a line
LineStart(t, i) == i = 1 \/ (i >= 2 /\ i <= Len(t) + 1 /\ t[i - 1] = "\n")

\* '$' under re.MULTILINE: index i is at the end of a line
LineEnd(t, i) == i = Len(t) + 1 \/ (i >= 1 /\ i <= Len(t) /\ t[i] = "\n")

\* str.strip()
Strip(t) ==
    LET from == SkipWhile(t, 1, Whitespace)
        upto == IF from > Len(t) THEN 0
                ELSE CHOOSE j \in from..Len(t) :
                        /\ t[j] \notin Whitespace
                        /\ \A k \in (j + 1)..Len(t) : t[k] \in Whitespace
    IN  IF from > Len(t) THEN << >> ELSE SubSeq(t, from, upto)

\* exactly one character of S at index i: the index after it, or 0
One(t, i, S) ==
    IF i >= 1 /\ i <= Len(t) /\ t[i] \in S THEN i + 1 ELSE 0

\* the least element of a non-empty set of integers
Min(S) == CHOOSE m \in S : \A n \in S : m <= n

(***************************************************************************)
(* split_by_question_numbers: the four question_patterns.  A match is the  *)
(* record [start, end, group]: start and end are Python offsets (0-based,  *)
(* end exclusive) and group is the text of group 1.  Every quantifier of   *)
(* these patterns is followed by a class disjoint from its own, so the     *)
(* greedy match is the only one.                                           *)
(***************************************************************************)
\* the part of question_patterns[p] before its digits, matched at index i of
\* t (1-based): the index after it, or 0
QuestionHead(p, t, i) ==
    CASE p = 1 -> i
      [] p = 2 -> Many0(t, i, Whitespace)
      [] p = 3 -> Many1(t, MatchLit(t, i, <<"Q","u","e","s","t","i","o","n">>, FALSE),
                        Whitespace)
      [] p = 4 -> Many0(t, MatchLit(t, i, <<"Q">>, FALSE), Whitespace)

\* the match of pattern p at index i whose digits are t[head..num-1]: end is
\* the index after the match (0: no match), gs and ge delimit group 1
QuestionMatch(p, t, i, head, num) ==
    LET punc == IF p \in {1, 2} THEN Opt(t, num, {"."}) ELSE Opt(t, num, {":", "."})
        tail == Many1(t, punc, Whitespace)
    IN  IF LineStart(t, i) /\ head # 0 /\ num # 0 /\ tail # 0
        THEN [end |-> tail, gs |-> head, ge |-> num - 1]
        ELSE [end |-> 0, gs |-> 0, ge |-> 0]

QuestionPatternParts(p, t, i) ==
    LET head == QuestionHead(p, t, i)
    IN  QuestionMatch(p, t, i, head, Many1(t, head, Digits))

\* re.finditer(question_patterns[p], text): the matches from index from on,
\* left to right and non-overlapping
RECURSIVE FindQuestionMatches(_, _, _)

\* the match m that starts at index s, and the matches after it
QuestionMatches(p, t, s, m) ==
    <<[start |-> s - 1, end |-> m.end - 1, group |-> SubSeq(t, m.gs, m.ge)]>>
    \o FindQuestionMatches(p, t, m.end)

FindQuestionMatches(p, t, from) ==
    LET S == {s \in from..Len(t) : QuestionPatternParts(p, t, s).end # 0}
    IN  IF S = {} THEN << >>
        ELSE QuestionMatches(p, t, Min(S), QuestionPatternParts(p, t, Min(S)))

\* "for pattern in question_patterns: all_matches.extend(matches)", from
\* pattern p on
RECURSIVE AllQuestionMatches(_, _)
AllQuestionMatches(t, p) ==
    IF p > 4 THEN << >>
    ELSE FindQuestionMatches(p, t, 1) \o AllQuestionMatches(t, p + 1)

\* sorted(all_matches, key=lambda m: m.start()): a stable insertion sort
RECURSIVE SortByStart(_)
SortByStart(ms) ==
    IF ms = << >> THEN << >>
    ELSE LET rest == SortByStart(SubSeq(ms, 1, Len(ms) - 1))
             m    == ms[Len(ms)]
             k    == Cardinality({j \in 1..Len(rest) : rest[j].start <= m.start})
         IN  SubSeq(rest, 1, k) \o <<m>> \o SubSeq(rest, k + 1, Len(rest))

\* whether a match is kept, given the start of the last kept match
KeepsMatch(start, last_pos) == start > last_pos + DUPLICATE_GAP

\* the loop over all_matches that builds unique_matches (last_pos starts at -1)
RECURSIVE UniqueMatches(_, _, _)
UniqueMatches(ms, k, last_pos) ==
    IF k > Len(ms) THEN << >>
    ELSE IF KeepsMatch(ms[k].start, last_pos)
         THEN <<ms[k]>> \o UniqueMatches(ms, k + 1, ms[k].start)
         ELSE UniqueMatches(ms, k + 1, last_pos)

(***************************************************************************)
(* is_valid_question_chunk                                                 *)
(***************************************************************************)
\* len(re.findall(r'[A-D][\)\.]\s+', chunk)): two matches never overlap (a
\* match ends with all the whitespace after its punctuation), so the
\* non-overlapping matches are the matching positions
ChoicesFound(chunk) ==
    Cardinality({i \in 1..Len(chunk) :
        Many1(chunk, One(chunk, One(chunk, i, {"A", "B", "C", "D"}), {")", "."}),
              Whitespace) # 0})

\* exclusion_patterns[p] (all of them (?i)) matched at index i of w
ExclusionAt(p, w, i) ==
    LET Lit(j, word) == MatchLit(w, j, word, TRUE)
        Ws1(j) == Many1(w, j, Whitespace)
        Ws0(j) == Many0(w, j, Whitespace)
        Num(j) == Many1(w, j, Digits)
    IN  CASE p = 1  -> One(w, Opt(w, Lit(i, <<"d","i","r","e","c","t","i","o","n">>),
                                  {"s", "S"}), {":", "."}) # 0
          [] p = 2  -> One(w, Opt(w, Lit(i, <<"i","n","s","t","r","u","c","t","i","o","n">>),
                                  {"s", "S"}), {":", "."}) # 0
          [] p = 3  -> Num(Ws1(Lit(i, <<"s","e","c","t","i","o","n">>))) # 0
          [] p = 4  -> Num(Ws1(Lit(i, <<"m","o","d","u","l","e">>))) # 0
          [] p = 5  -> Num(Ws0(One(w, Ws0(Lit(i, <<"t","i","m","e">>)), {":"}))) # 0
          [] p = 6  -> LET c == Ws1(Lit(i, <<"c","a","l","c","u","l","a","t","o","r">>))
                       IN  \/ Lit(c, <<"a","l","l","o","w","e","d">>) # 0
                           \/ Lit(Ws1(Lit(c, <<"n","o","t">>)),
                                  <<"a","l","l","o","w","e","d">>) # 0
          [] p = 7  -> Lit(Ws1(Lit(Ws1(Lit(i, <<"r","e","a","d","i","n","g">>)),
                                   <<"a","n","d">>)),
                           <<"w","r","i","t","i","n","g">>) # 0
          [] p = 8  -> Lit(Ws1(Lit(i, <<"m","a","t","h">>)),
                           <<"s","e","c","t","i","o","n">>) # 0
          [] p = 9  -> Lit(Ws1(Lit(i, <<"a","n","s","w","e","r">>)),
                           <<"s","h","e","e","t">>) # 0
          [] p = 10 -> Lit(Ws1(Lit(i, <<"s","a","m","p","l","e">>)),
                           <<"q","u","e","s","t","i","o","n">>) # 0
          [] p = 11 -> Lit(Ws1(Lit(i, <<"p","r","a","c","t","i","c","e">>)),
                           <<"t","e","s","t">>) # 0

\* some exclusion pattern is found in chunk[:200]
Excluded(chunk) ==
    LET w == SubSeq(chunk, 1, IF Len(chunk) < EXCLUSION_WINDOW THEN Len(chunk)
                                                              ELSE EXCLUSION_WINDOW)
    IN  \E p \in 1..11 : \E i \in 1..Len(w) : ExclusionAt(p, w, i)

\* the length check left out
MutIsValid(chunk) == ChoicesFound(chunk) >= MIN_CHOICES_FOUND /\ ~Excluded(chunk)

is_valid_question_chunk(chunk) ==
    IF Len(chunk) < MIN_CHUNK_LENGTH THEN FALSE
    ELSE IF ChoicesFound(chunk) < MIN_CHOICES_FOUND THEN FALSE
    ELSE ~Excluded(chunk)

\* filter(is_valid_question_chunk, cs), order kept
RECURSIVE ValidChunks(_)
ValidChunks(cs) ==
    IF cs = << >> THEN << >>
    ELSE (IF is_valid_question_chunk(Head(cs)) THEN <<Head(cs)>> ELSE << >>)
         \o ValidChunks(Tail(cs))

\* the chunks between the starts of unique_matches, the invalid ones dropped
QuestionChunks(text, unique_matches) ==
    LET n == Len(unique_matches)
        chunk(i) == LET start_pos == unique_matches[i].start
                        end_pos   == IF i + 1 <= n THEN unique_matches[i + 1].start
                                                   ELSE Len(text)
                    IN  Strip(SubSeq(text, start_pos + 1, end_pos))
    IN  ValidChunks([i \in 1..n |-> chunk(i)])

split_by_question_numbers(text) ==
    QuestionChunks(text, UniqueMatches(SortByStart(AllQuestionMatches(text, 1)), 1, -1))

\* RecursiveCharacterTextSplitter(chunk_size=4000, chunk_overlap=500).split_text:
\* a text shorter than chunk_size is split at the first separator it contains
\* into pieces that are all merged back into one, stripped; an all-whitespace
\* text gives nothing.  Longer texts are outside the model's documents.
SplitText(text) ==
    CASE Len(text) < SPLITTER_CHUNK_SIZE ->
            IF Strip(text) = << >> THEN << >> ELSE <<Strip(text)>>

split_by_content(text) == ValidChunks(SplitText(text))

\* the content-based split used for every page
MutPageChunks(page_content, question_chunks) ==
    question_chunks \o split_by_content(page_content)

\* the chunks of one page: question_chunks, or the content-based split when
\* there are none
PageChunks(page_content, question_chunks) ==
    IF question_chunks # << >> THEN question_chunks
    ELSE split_by_content(page_content)

\* the loop of split_pages over state["raw_pages"]
RECURSIVE SplitAllPages(_)
SplitAllPages(pages) ==
    IF pages = << >> THEN << >>
    ELSE PageChunks(Head(pages).page_content,
                    split_by_question_numbers(Head(pages).page_content))
         \o SplitAllPages(Tail(pages))

(***************************************************************************)
(* parse_answer_key: the eight patterns, matched with re.IGNORECASE |      *)
(* re.MULTILINE, and the tabular pattern.                                  *)
(***************************************************************************)
AnswerLetters == {"A", "B", "C", "D", "a", "b", "c", "d"}

\* what patterns[p] holds between the digits, which end before index num,
\* and the letter: the index of the letter, or 0
AnswerSeparator(p, t, num) ==
    CASE p = 1 -> Many0(t, Opt(t, num, {"."}), Whitespace)
      [] p = 2 -> Many0(t, Opt(t, num, {":", "."}), Whitespace)
      [] p = 3 -> Many0(t, One(t, num, {")"}), Whitespace)
      [] p = 4 -> Many0(t, One(t, Many0(t, num, Whitespace), {"-"}), Whitespace)
      [] p = 5 -> Many0(t, One(t, Many0(t, num, Whitespace), {":"}), Whitespace)
      [] p \in {6, 7, 8} -> Many1(t, num, Whitespace)

\* what patterns[p] holds after the letter, which ends before index let: the
\* index after the match, or 0
AnswerEnd(p, t, let) ==
    CASE p \in 1..5 -> let
      [] p = 6 -> One(t, let, Whitespace)
      [] p = 7 -> IF let # 0 /\ LineEnd(t, let) THEN let ELSE 0
      [] p = 8 -> One(t, let, {",", "."} \cup Whitespace)

\* pattern p of patterns matched at index i of t: end is the index after the
\* match (0: no match), gs the index of group 1, ge the index after it, at
\* the index of the letter
AnswerPatternParts(p, t, i) ==
    LET ns   == IF p = 2
                THEN Many0(t, MatchLit(t, i, <<"Q","u","e","s","t","i","o","n">>, TRUE),
                           Whitespace)
                ELSE i
        num  == Many1(t, ns, Digits)
        at   == AnswerSeparator(p, t, num)
        end  == AnswerEnd(p, t, One(t, at, AnswerLetters))
    IN  IF end # 0 THEN [end |-> end, gs |-> ns, ge |-> num, at |-> at]
        ELSE [end |-> 0, gs |-> 0, ge |-> 0, at |-> 0]

\* (?:\d+\s*[A-D]\s*)* from index i: the index after the last whole repetition
RECURSIVE TabularTail(_, _)
TabularTail(t, i) ==
    LET let == One(t, Many0(t, Many1(t, i, Digits), Whitespace), AnswerLetters)
    IN  IF let = 0 THEN i ELSE TabularTail(t, Many0(t, let, Whitespace))

\* tabular_pattern matched at index i of t
TabularPatternParts(t, i) ==
    LET num == Many1(t, i, Digits)
        at  == Many0(t, num, Whitespace)
        let == One(t, at, AnswerLetters)
    IN  IF let # 0
        THEN [end |-> TabularTail(t, Many0(t, let, Whitespace)),
              gs |-> i, ge |-> num, at |-> at]
        ELSE [end |-> 0, gs |-> 0, ge |-> 0, at |-> 0]

\* pattern 0 is the tabular pattern
AnswerParts(p, t, i) ==
    IF p = 0 THEN TabularPatternParts(t, i) ELSE AnswerPatternParts(p, t, i)

\* re.findall(pattern, answer_text, flags) from index from on: the (group 1,
\* group 2) pairs of the non-overlapping matches, left to right
RECURSIVE FindAnswerMatches(_, _, _)

\* the pair of the match m, and the pairs of the matches after it
AnswerMatches(p, t, m) ==
    <<[num |-> SubSeq(t, m.gs, m.ge - 1), letter |-> t[m.at]]>>
    \o FindAnswerMatches(p, t, m.end)

FindAnswerMatches(p, t, from) ==
    LET S == {s \in from..Len(t) : AnswerParts(p, t, s).end # 0}
    IN  IF S = {} THEN << >>
        ELSE AnswerMatches(p, t, AnswerParts(p, t, Min(S)))

\* all_matches: the matches of the eight patterns, pattern after pattern
RECURSIVE AllAnswerMatches(_, _)
AllAnswerMatches(t, p) ==
    IF p > 8 THEN << >>
    ELSE FindAnswerMatches(p, t, 1) \o AllAnswerMatches(t, p + 1)

\* every match stored
MutStoresAnswer(key, question_num) == TRUE

\* whether a match for question_num is stored, given the key so far (the
\* set seen_questions is the key's domain)
StoresAnswer(key, question_num) == question_num \notin DOMAIN key

\* the two "for match in ..." loops: int(match[0]), match[1].upper(), stored
\* when the number is new
RECURSIVE AddMatches(_, _, _)
AddMatches(key, ms, k) ==
    IF k > Len(ms) THEN key
    ELSE LET question_num   == ParseInt(ms[k].num)
             correct_answer == Upper(ms[k].letter)
         IN  AddMatches(IF StoresAnswer(key, question_num)
                        THEN (question_num :> correct_answer) @@ key
                        ELSE key,
                        ms, k + 1)

\* whether the alternative (tabular) parsing runs
TriesAlternative(key) == Cardinality(DOMAIN key) < ALTERNATIVE_THRESHOLD

\* answer_text: every page's content followed by a newline
RECURSIVE AnswerText(_)
AnswerText(pages) ==
    IF pages = << >> THEN << >>
    ELSE Head(pages).page_content \o <<"\n">> \o AnswerText(Tail(pages))

\* the tabular pattern's matches stored over the key's entries
MutWithAlternative(key, answer_text) ==
    AddMatches(<< >>, FindAnswerMatches(0, answer_text, 1), 1) @@ key

\* "if len(answer_key) < 10": the tabular pattern's matches added to the key
WithAlternative(key, answer_text) ==
    IF TriesAlternative(key)
    THEN AddMatches(key, FindAnswerMatches(0, answer_text, 1), 1)
    ELSE key

\* the answer key parse_answer_key stores for the answer pages
ParsedAnswerKey(pages) ==
    IF pages = << >> THEN << >>
    ELSE WithAlternative(AddMatches(<< >>, AllAnswerMatches(AnswerText(pages), 1), 1),
                         AnswerText(pages))

(***************************************************************************)
(* JSON.  A JSON value is a record [t, s, n, kv, items]: t is its type     *)
(* ("null", "str", "int", "dict", "list"), s the text of a string, n the   *)
(* value of an integer, kv the members of an object (a function from key   *)
(* texts to values) and items the elements of a list.                      *)
(***************************************************************************)
JNull == [t |-> "null", s |-> << >>, n |-> 0, kv |-> << >>, items |-> << >>]
JStr(x) == [t |-> "str", s |-> x, n |-> 0, kv |-> << >>, items |-> << >>]
JInt(x) == [t |-> "int", s |-> << >>, n |-> x, kv |-> << >>, items |-> << >>]
JDict(f) == [t |-> "dict", s |-> << >>, n |-> 0, kv |-> f, items |-> << >>]
JList(l) == [t |-> "list", s |-> << >>, n |-> 0, kv |-> << >>, items |-> l]

JsonWhitespace == {" ", "\n", "\t", "\r"}
\* "BS" and "FF" stand for the backspace and form-feed characters
ControlChars == {"\n", "\t", "\r", "BS", "FF"}
Failed == [ok |-> FALSE, v |-> JNull, next |-> 0]

\* the character an escape \c of a JSON string stands for ("" : no such
\* escape; \uXXXX is not in the alphabet of the model's texts)
Unescape(c) ==
    CASE c = "\"" -> "\"" [] c = "\\" -> "\\" [] c = "/" -> "/"
      [] c = "n" -> "\n" [] c = "t" -> "\t" [] c = "r" -> "\r"
      [] c = "b" -> "BS" [] c = "f" -> "FF"
      [] OTHER -> ""

\* json's string scanner from index j (after the opening quote), strict mode
RECURSIVE ScanString(_, _, _)
ScanString(t, j, acc) ==
    IF j > Len(t) THEN Failed
    ELSE IF t[j] = "\"" THEN [ok |-> TRUE, v |-> JStr(acc), next |-> j + 1]
    ELSE IF t[j] = "\\"
         THEN IF j + 1 > Len(t) \/ Unescape(t[j + 1]) = "" THEN Failed
              ELSE ScanString(t, j + 2, Append(acc, Unescape(t[j + 1])))
    ELSE IF t[j] \in ControlChars THEN Failed
    ELSE ScanString(t, j + 1, Append(acc, t[j]))

\* the digits of a number from index ds on (0|[1-9]\d*)
ScanDigits(t, neg, ds) ==
    LET de == IF ds <= Len(t) /\ t[ds] = "0" THEN ds + 1 ELSE Many1(t, ds, Digits)
    IN  IF de = 0 THEN Failed
        ELSE [ok |-> TRUE,
              v |-> JInt((IF neg THEN -1 ELSE 1) * ParseInt(SubSeq(t, ds, de - 1))),
              next |-> de]

\* json's number scanner at index i: integers only (-?(0|[1-9]\d*))
ScanNumber(t, i) ==
    IF i <= Len(t) /\ t[i] = "-" THEN ScanDigits(t, TRUE, i + 1)
    ELSE ScanDigits(t, FALSE, i)

RECURSIVE ScanValue(_, _)
RECURSIVE ScanMembers(_, _, _)
RECURSIVE ScanItems(_, _, _)

\* the end of a member, whose key is the string k and whose value is the
\* scan result v: '}' ends the object and ',' leads to the next member
ScanMemberEnd(t, k, v, kv) ==
    LET e == IF v.ok THEN SkipWhile(t, v.next, JsonWhitespace) ELSE 0
    IN  IF ~v.ok \/ e > Len(t) THEN Failed
        ELSE IF t[e] = "}"
             THEN [ok |-> TRUE, v |-> JDict((k.v.s :> v.v) @@ kv), next |-> e + 1]
        ELSE IF t[e] = "," THEN ScanMembers(t, e + 1, (k.v.s :> v.v) @@ kv)
        ELSE Failed

\* a member from the scan result k of its key on: ':' and the value
ScanMemberValue(t, k, kv) ==
    LET co == IF k.ok THEN SkipWhile(t, k.next, JsonWhitespace) ELSE 0
    IN  IF k.ok /\ co <= Len(t) /\ t[co] = ":"
        THEN ScanMemberEnd(t, k, ScanValue(t, co + 1), kv)
        ELSE Failed

\* the members of an object from index i (after '{' or ','), kv so far
ScanMembers(t, i, kv) ==
    LET ks == SkipWhile(t, i, JsonWhitespace)
    IN  IF ks <= Len(t) /\ t[ks] = "\""
        THEN ScanMemberValue(t, ScanString(t, ks + 1, << >>), kv)
        ELSE Failed

\* the end of an element, whose scan result is v: ']' ends the list and ','
\* leads to the next element
ScanItemEnd(t, v, items) ==
    LET e == IF v.ok THEN SkipWhile(t, v.next, JsonWhitespace) ELSE 0
    IN  IF ~v.ok \/ e > Len(t) THEN Failed
        ELSE IF t[e] = "]" THEN [ok |-> TRUE, v |-> JList(Append(items, v.v)), next |-> e + 1]
        ELSE IF t[e] = "," THEN ScanItems(t, e + 1, Append(items, v.v))
        ELSE Failed

\* the elements of a list from index i (after '[' or ','), items so far
ScanItems(t, i, items) == ScanItemEnd(t, ScanValue(t, i), items)

\* one JSON value from index i, leading whitespace skipped
ScanValue(t, i) ==
    LET b == SkipWhile(t, i, JsonWhitespace)
        a == SkipWhile(t, b + 1, JsonWhitespace)
    IN  IF b > Len(t) THEN Failed
        ELSE IF t[b] = "\"" THEN ScanString(t, b + 1, << >>)
        ELSE IF t[b] = "{"
             THEN IF a <= Len(t) /\ t[a] = "}"
                  THEN [ok |-> TRUE, v |-> JDict(<< >>), next |-> a + 1]
                  ELSE ScanMembers(t, b + 1, << >>)
        ELSE IF t[b] = "["
             THEN IF a <= Len(t) /\ t[a] = "]"
                  THEN [ok |-> TRUE, v |-> JList(<< >>), next |-> a + 1]
                  ELSE ScanItems(t, b + 1, << >>)
        ELSE IF MatchLit(t, b, <<"n","u","l","l">>, FALSE) # 0
             THEN [ok |-> TRUE, v |-> JNull, next |-> b + 4]
        ELSE ScanNumber(t, b)

\* the value r scanned from the start of t, when only whitespace follows it
WholeText(t, r) ==
    IF r.ok /\ SkipWhile(t, r.next, JsonWhitespace) > Len(t)
    THEN [ok |-> TRUE, v |-> r.v]
    ELSE [ok |-> FALSE, v |-> JNull]

\* json.loads(t): ok is FALSE when it raises JSONDecodeError
json_loads(t) == WholeText(t, ScanValue(t, 1))

\* the start of the run of the character c that ends at index i of t
RunStart(t, i, c) ==
    CHOOSE r \in 1..i :
        /\ \A k \in r..i : t[k] = c
        /\ (r = 1 \/ t[r - 1] # c)

\* whether a match of the two-character text old starts at index i of t, for
\* the occurrences str.replace finds: left to right and non-overlapping
\* (occurrences overlap only when old repeats one character)
ReplacesAt(t, i, old) ==
    /\ MatchLit(t, i, old, FALSE) # 0
    /\ (old[1] = old[2] => (i - RunStart(t, i, old[1])) % 2 = 0)

\* what indices lo..hi of t contribute to t.replace(old, new)
RECURSIVE ReplaceRange(_, _, _, _, _)
ReplaceRange(t, lo, hi, old, new) ==
    IF lo > hi THEN << >>
    ELSE IF lo = hi
         THEN IF ReplacesAt(t, lo, old) THEN new
              ELSE IF lo > 1 /\ ReplacesAt(t, lo - 1, old) THEN << >>
              ELSE <<t[lo]>>
    ELSE LET mid == (lo + hi) \div 2
         IN  ReplaceRange(t, lo, mid, old, new) \o ReplaceRange(t, mid + 1, hi, old, new)

\* str.replace(old, new) for a two-character old
Replace(t, old, new) == ReplaceRange(t, 1, Len(t), old, new)

\* the two replacements of clean_json_string that change the text
FixEscapes(t) ==
    Replace(Replace(t, <<"\\", "\\">>, <<"\\">>), <<"\\", "/">>, <<"/">>)

clean_json_string(t) ==
    LET a == Replace(t, <<"\\", "n">>, <<"\\", "n">>)
        b == Replace(a, <<"\\", "\"">>, <<"\\", "\"">>)
        c == FixEscapes(b)
        d == Replace(c, <<"\\", "u">>, <<"\\", "u">>)
        e == Replace(d, <<"\\", "t">>, <<"\\", "t">>)
    IN  Replace(e, <<"\\", "r">>, <<"\\", "r">>)

\* the greatest element of a non-empty set of integers
Max(S) == CHOOSE m \in S : \A n \in S : m >= n

\* a lazy '.*?' in place of the greedy '.*'
MutClosingBrace(closers) == Min(closers)

\* where the match of '.*\}' ends, given the indices of the '}' after the
\* opening brace: '.*' is greedy, so at the last of them
ClosingBrace(closers) == Max(closers)

\* re.search(r'\{.*\}', text, re.DOTALL): found is FALSE for None, else
\* group(0) is text[from..to]
JsonSearch(text) ==
    LET S == {i \in 1..Len(text) :
                text[i] = "{" /\ \E j \in (i + 1)..Len(text) : text[j] = "}"}
        i == Min(S)
        j == ClosingBrace({k \in (i + 1)..Len(text) : text[k] = "}"})
    IN  IF S = {} THEN [found |-> FALSE, group |-> << >>]
        ELSE [found |-> TRUE, group |-> SubSeq(text, i, j)]

(***************************************************************************)
(* validate_and_clean_record and QARecord                                  *)
(***************************************************************************)
K_id == <<"i","d">>
K_module == <<"m","o","d","u","l","e">>
K_question_number == <<"q","u","e","s","t","i","o","n","_","n","u","m","b","e","r">>
K_section == <<"s","e","c","t","i","o","n">>
K_type == <<"t","y","p","e">>
K_category == <<"c","a","t","e","g","o","r","y">>
K_stimulus == <<"s","t","i","m","u","l","u","s">>
K_choices == <<"c","h","o","i","c","e","s">>
K_correct == <<"c","o","r","r","e","c","t">>
expected_keys == {<<"A">>, <<"B">>, <<"C">>, <<"D">>}

\* dict.get(k, default)
Get(d, k, default) == IF k \in DOMAIN d THEN d[k] ELSE default

\* d[k] = v
Set(d, k, v) == (k :> v) @@ d

\* any() in place of all()
MutHasExpectedKeys(kv) == \E key \in expected_keys : key \in DOMAIN kv

\* whether a choices dict passes the structure check
HasExpectedKeys(kv) == \A key \in expected_keys : key \in DOMAIN kv

\* "try: choices = json.loads(choices) except: choices = None", for the
\* outcome r of json.loads
LoadedOrNone(r) == IF r.ok THEN r.v ELSE JNull

\* the "Handle choices field" block of validate_and_clean_record
CleanChoices(choices) ==
    IF choices.t = "null" THEN choices
    ELSE IF choices.t = "str" THEN LoadedOrNone(json_loads(choices.s))
    ELSE IF choices.t = "dict"
         THEN IF HasExpectedKeys(choices.kv) THEN choices ELSE JNull
    ELSE JNull

\* d[k] = d.get(k, default)
SetDefault(d, k, default) == Set(d, k, Get(d, k, default))

\* record_dict["choices"] = choices, after the choices block
SetChoices(d) == Set(d, K_choices, CleanChoices(Get(d, K_choices, JNull)))

validate_and_clean_record(record_dict_in, unique_id) ==
    LET d1 == Set(record_dict_in, K_id, JStr(unique_id))
        d2 == SetDefault(d1, K_module, JInt(1))
        d3 == SetDefault(d2, K_question_number, JInt(1))
        d4 == SetDefault(d3, K_section, JStr(<<"U","n","k","n","o","w","n">>))
        d5 == SetDefault(d4, K_type, JStr(<<"M","C">>))
        d6 == SetDefault(d5, K_category, JNull)
        d7 == SetDefault(d6, K_stimulus, JNull)
        d8 == SetDefault(d7, K_correct, JNull)
    IN  SetChoices(d8)

\* pydantic's validation of one field (lax mode, str_strip_whitespace)
IsStr(v) == v.t = "str"
IsOptStr(v) == v.t \in {"null", "str"}
IsInt(v) ==
    \/ v.t = "int"
    \/ v.t = "str" /\ v.s # << >> /\ \A i \in 1..Len(v.s) : v.s[i] \in Digits
IntOf(v) == IF v.t = "int" THEN v.n ELSE ParseInt(v.s)
IsOptDictOfStr(v) ==
    \/ v.t = "null"
    \/ v.t = "dict" /\ \A k \in DOMAIN v.kv : v.kv[k].t = "str"
Stripped(v) ==
    IF v.t = "str" THEN JStr(Strip(v.s))
    ELSE IF v.t = "dict" THEN JDict([k \in DOMAIN v.kv |-> JStr(Strip(v.kv[k].s))])
    ELSE v

\* stimulus taken for Optional[str]
MutQARecordValid(d) ==
    /\ {K_id, K_module, K_question_number, K_section, K_type, K_stimulus} \subseteq DOMAIN d
    /\ IsStr(d[K_id]) /\ IsInt(d[K_module]) /\ IsInt(d[K_question_number])
    /\ IsStr(d[K_section]) /\ IsStr(d[K_type]) /\ IsOptStr(d[K_stimulus])
    /\ IsOptStr(Get(d, K_category, JNull))
    /\ IsOptDictOfStr(Get(d, K_choices, JNull))
    /\ IsOptStr(Get(d, K_correct, JNull))

\* whether QARecord(**d) validates: the required fields are present with
\* their types and the optional ones are null or of their type
QARecordValid(d) ==
    /\ {K_id, K_module, K_question_number, K_section, K_type, K_stimulus} \subseteq DOMAIN d
    /\ IsStr(d[K_id]) /\ IsInt(d[K_module]) /\ IsInt(d[K_question_number])
    /\ IsStr(d[K_section]) /\ IsStr(d[K_type]) /\ IsStr(d[K_stimulus])
    /\ IsOptStr(Get(d, K_category, JNull))
    /\ IsOptDictOfStr(Get(d, K_choices, JNull))
    /\ IsOptStr(Get(d, K_correct, JNull))

\* QARecord(**d) for a valid d (keys that are no fields are ignored)
QARecord(d) ==
    [id              |-> Strip(d[K_id].s),
     module          |-> IntOf(d[K_module]),
     question_number |-> IntOf(d[K_question_number]),
     section         |-> Strip(d[K_section].s),
     type            |-> Strip(d[K_type].s),
     category        |-> Stripped(Get(d, K_category, JNull)),
     stimulus        |-> Strip(d[K_stimulus].s),
     choices         |-> Stripped(Get(d, K_choices, JNull)),
     correct         |-> Stripped(Get(d, K_correct, JNull))]

\* extract_question_number from pattern p on: the number of the leftmost
\* match of the first pattern that matches, or -1 for None
RECURSIVE ExtractFrom(_, _)
ExtractFrom(text, p) ==
    IF p > 4 THEN -1
    ELSE LET S == {s \in 1..Len(text) : QuestionPatternParts(p, text, s).end # 0}
             m == QuestionPatternParts(p, text, Min(S))
         IN  IF S = {} THEN ExtractFrom(text, p + 1)
             ELSE ParseInt(SubSeq(text, m.gs, m.ge))

extract_question_number(text) == ExtractFrom(text, 1)

\* one identifier for every chunk
MutUniqueId(index) == <<"S","A","T","-","Q","0","0","1">>

\* f"SAT-Q{current_chunk_index + 1:03d}"
UniqueId(index) ==
    LET ds == FormatInt(index + 1)
    IN  <<"S","A","T","-","Q">> \o (IF Len(ds) < 3 THEN Rep("0", 3 - Len(ds)) ELSE << >>) \o ds

(***************************************************************************)
(* The inputs of the model: the two PDF files and the responses of the     *)
(* reasoning capability.                                                   *)
(***************************************************************************)
Page(text) == [page_content |-> text]

\* a page holding question n after a heading: "Mathematics\nn. If xx..x?\nA) a\nB) b\nC) c\nD) d"
QuestionPage(n) ==
    Page(<<"M","a","t","h","e","m","a","t","i","c","s","\n">>
         \o FormatInt(n) \o <<".", " ", "I", "f", " ">> \o Rep("x", 80) \o <<"?">>
         \o <<"\n","A",")"," ","a","\n","B",")"," ","b","\n","C",")"," ","c",
              "\n","D",")"," ","d">>)

\* a page of directions, which holds no question
DirectionsPage ==
    Page(<<"D","i","r","e","c","t","i","o","n","s",":"," ">> \o Rep("x", 100)
         \o <<" ","A",")"," ","a"," ","B",")"," ","b"," ","C",")"," ","c">>)

\* the answer key page "2) B\n3 - C"
AnswerPage == Page(<<"2",")"," ","B","\n","3"," ","-"," ","C">>)

QuestionPages(n) == [i \in 1..n |-> QuestionPage(i)]

\* the pages of the long document: more than the super-steps of one run can
\* resolve when every attempt fails (three super-steps per chunk)
LongLength == recursion_limit \div 3 + LongExtra

\* a file is [exists, raises, pages]: whether os.path.exists finds it,
\* whether PyPDFLoader.load raises on it, and the pages it loads
File(pages) == [exists |-> TRUE, raises |-> FALSE, pages |-> pages]
MissingFile == [exists |-> FALSE, raises |-> FALSE, pages |-> << >>]
CorruptFile == [exists |-> TRUE, raises |-> TRUE, pages |-> << >>]

\* a page that holds a question without a number
UnnumberedPage ==
    Page(<<"I", "f", " ">> \o Rep("x", 90) \o <<"?">>
         \o <<"\n","A",")"," ","a","\n","B",")"," ","b","\n","C",")"," ","c",
              "\n","D",")"," ","d">>)

\* the questions files: none, an unreadable one, one without pages, a page
\* of directions, a question numbered 0, a question without a number, the
\* long document, and the documents of questions 1..n
QuestionFiles ==
    {MissingFile, CorruptFile, File(<< >>), File(<<DirectionsPage>>),
     File(<<QuestionPage(0)>>), File(<<UnnumberedPage>>),
     File(QuestionPages(LongLength))}
    \cup {File(QuestionPages(n)) : n \in 1..MaxChunks}

AnswerFiles == {MissingFile, CorruptFile, File(<<AnswerPage>>)}

\* JSON text
Quoted(x) == <<"\"">> \o x \o <<"\"">>
Member(k, value_text) == Quoted(k) \o <<":">> \o value_text
NullText == <<"n","u","l","l">>
ChoicesText(keys) ==
    LET RECURSIVE Members(_)
        Members(ks) == IF ks = << >> THEN << >>
                       ELSE Member(<<Head(ks)>>, Quoted(<<Lower(Head(ks))>>))
                            \o (IF Len(ks) > 1 THEN <<",">> ELSE << >>)
                            \o Members(Tail(ks))
    IN  <<"{">> \o Members(keys) \o <<"}">>

\* the object the prompt asks for, with the given texts for four of its fields
ObjectText(question_number, stimulus, choices, correct) ==
    <<"{">> \o Member(K_id, Quoted(<<"X">>)) \o <<",">>
    \o Member(K_module, <<"1">>) \o <<",">>
    \o Member(K_question_number, question_number) \o <<",">>
    \o Member(K_section, Quoted(<<"M","a","t","h">>)) \o <<",">>
    \o Member(K_type, Quoted(<<"M","C">>)) \o <<",">>
    \o Member(K_category, NullText) \o <<",">>
    \o Member(K_stimulus, stimulus) \o <<",">>
    \o Member(K_choices, choices) \o <<",">>
    \o Member(K_correct, correct) \o <<"}">>

GoodStimulus == Quoted(<<"I","f"," ","x","?">>)
ABCD == ChoicesText(<<"A","B","C","D">>)
GoodObject == ObjectText(<<"7">>, GoodStimulus, ABCD, NullText)

\* the object with a correct letter reported by the model
ReportsCorrect == ObjectText(<<"7">>, GoodStimulus, ABCD, Quoted(<<"D">>))

Sorry == <<"S","o","r","r","y">>

\* the response texts the model draws from
ResponseTexts ==
    { \* the object alone, and between prose ("Here is the JSON: {...} Thanks!")
      GoodObject,
      <<"H","e","r","e",":"," ">> \o GoodObject \o <<" ","T","h","a","n","k","s","!">>,
      \* prose after the object that holds braces of its own
      GoodObject \o <<" ","{","d","o","n","e","}">>,
      \* no object, and an object that is no JSON
      Sorry,
      <<"{","o","o","p","s","}">>,
      \* the prompt's "no complete question found" shape
      ObjectText(<<"1">>, NullText, NullText, NullText),
      \* choices: null, partial, with an extra key, a list, a number
      ObjectText(<<"7">>, GoodStimulus, NullText, NullText),
      ObjectText(<<"7">>, GoodStimulus, ChoicesText(<<"A","B","C">>), NullText),
      ObjectText(<<"7">>, GoodStimulus, ChoicesText(<<"A","B","C","D","E">>), NullText),
      ObjectText(<<"7">>, GoodStimulus, <<"[","1","]">>, NullText),
      ObjectText(<<"7">>, GoodStimulus, <<"5">>, NullText),
      \* choices as a string: plain text, an encoded partial object, an encoded list
      ObjectText(<<"7">>, GoodStimulus, Quoted(<<"A",")"," ","a">>), NullText),
      ObjectText(<<"7">>, GoodStimulus,
                 Quoted(<<"{","\\","\"","A","\\","\"",":","\\","\"","a","\\","\"","}">>),
                 NullText),
      ObjectText(<<"7">>, GoodStimulus, Quoted(<<"[","1","]">>), NullText),
      \* a correct letter reported by the model
      ReportsCorrect,
      \* a stimulus with an escaped backslash before "n" and before "c", and
      \* with an escaped slash
      ObjectText(<<"7">>, Quoted(<<"a", "\\", "\\", "n">>), ABCD, NullText),
      ObjectText(<<"7">>, Quoted(<<"a", "\\", "\\", "c">>), ABCD, NullText),
      ObjectText(<<"7">>, Quoted(<<"a", "\\", "/", "b">>), ABCD, NullText),
      \* only the stimulus, and everything but the stimulus
      <<"{">> \o Member(K_stimulus, GoodStimulus) \o <<"}">>,
      <<"{">> \o Member(K_question_number, <<"7">>) \o <<"}">> }

\* a response: the call raises, or returns the text content
Raises == [raises |-> TRUE, content |-> << >>]
Returns(text) == [raises |-> FALSE, content |-> text]
Responses == {Raises} \cup {Returns(t) : t \in ResponseTexts}

\* how long a call takes: less than the delay, or more
Durations == {1, RATE_LIMIT_DELAY + 1}

(***************************************************************************)
(* llm_extract, after the call was issued: the try block.                  *)
(***************************************************************************)
\* an entry of state["errors"]: the message, the chunk_info numbers it
\* names (0 when it names none) and the text of the exception
Error(msg, chunk, of, detail) == [msg |-> msg, chunk |-> chunk, of |-> of, detail |-> detail]

\* "if actual_question_number:" - None and 0 are falsy
Truthy(n) == n # -1 /\ n # 0

\* the locals of the try block up to json.loads, for cleaned, the outcome of
\* clean_json_string
ParsedJson(content, found, cleaned) ==
    [content |-> content, found |-> found, cleaned |-> cleaned,
     loaded |-> json_loads(cleaned)]

\* the try block of llm_extract from the call's return to json.loads, which
\* depends on the response text alone
ResponseParse(text) ==
    LET json_match == JsonSearch(Strip(text))
    IN  ParsedJson(Strip(text), json_match.found, clean_json_string(json_match.group))

\* ResponseParse of each response text of the model
ResponseParses == [t \in ResponseTexts |-> ResponseParse(t)] @@ << >>

\* an attempt that raised: detail is the text of the exception and the other
\* arguments are the locals assigned before it
Failure(detail, rc, js, rd) ==
    [ok |-> FALSE, detail |-> detail, record |-> << >>,
     response_content |-> rc, json_str |-> js, record_dict |-> rd]

\* "if actual_question_number: record.question_number = ..."
WithNumber(record, actual_question_number) ==
    IF Truthy(actual_question_number)
    THEN [record EXCEPT !.question_number = actual_question_number]
    ELSE record

\* the answer key not consulted
MutWithAnswer(record, key) == record

\* "if state["answer_key"] and record.question_number in state["answer_key"]"
WithAnswer(record, key) ==
    IF key # << >> /\ record.question_number \in DOMAIN key
    THEN [record EXCEPT !.correct = JStr(<<key[record.question_number]>>)]
    ELSE record

\* the try block from QARecord(**cleaned_record) on
Validated(p, cleaned_record, chunk, key) ==
    IF ~QARecordValid(cleaned_record)
    THEN Failure("validation error", p.content, p.cleaned, cleaned_record)
    ELSE [ok |-> TRUE, detail |-> "",
          record |-> WithAnswer(WithNumber(QARecord(cleaned_record),
                                           extract_question_number(chunk)), key),
          response_content |-> p.content, json_str |-> p.cleaned,
          record_dict |-> cleaned_record]

\* the try block for the response content whose parse is p
Extracted(p, chunk, index, key) ==
    IF ~p.found THEN Failure("No JSON found in LLM response", p.content, << >>, << >>)
    ELSE IF ~p.loaded.ok THEN Failure("JSON parsing failed", p.content, p.cleaned, << >>)
    ELSE Validated(p, validate_and_clean_record(p.loaded.v.kv, UniqueId(index)), chunk, key)

\* the try block of llm_extract for the response resp to the chunk at index:
\* ok says whether it reached state["parsed"].append(record); detail is the
\* text of the exception otherwise; the other fields are its locals
Extraction(resp, chunk, index, key) ==
    IF resp.raises THEN Failure("reasoning call raised", << >>, << >>, << >>)
    ELSE Extracted(ResponseParses[resp.content], chunk, index, key)

(***************************************************************************)
(* The rate limiter and the graph's edges.                                 *)
(***************************************************************************)
\* no sleep
MutSleepTime(time_since_last_request) == 0

\* how long llm_extract sleeps, given the time since the last request
SleepTime(time_since_last_request) ==
    IF time_since_last_request < RATE_LIMIT_DELAY
    THEN RATE_LIMIT_DELAY - time_since_last_request
    ELSE 0

\* the assignment left out
MutRequestTime(clock_after_sleep) == last_request_time

\* the value "last_request_time = time.time()" stores: the clock after the
\* sleep, when the call is about to be issued
RequestTime(clock_after_sleep) == clock_after_sleep

\* the edge to END left out
MutAfterSplit(cs) == "llm_extract_node"

\* the conditional edge after split_pages
AfterSplit(cs) == IF cs = << >> THEN "END" ELSE "llm_extract_node"

\* the failure edge left out
MutAfterExtract(status) == "assemble_json"

\* the conditional edge after llm_extract_node
AfterExtract(status) ==
    IF status = "success" THEN "assemble_json" ELSE "llm_fallback_node"

\* the loop left after the first chunk
MutShouldContinue(index, cs) == "end"

\* should_continue and the conditional edge after assemble_json
should_continue(index, cs) == IF index < Len(cs) THEN "continue" ELSE "end"
AfterAssemble(index, cs) ==
    IF should_continue(index, cs) = "continue" THEN "llm_extract_node" ELSE "END"

\* the increment left out
MutNextIndex(index) == index

\* state["current_chunk_index"] += 1
NextIndex(index) == index + 1

\* the outcome of a node's super-step that leads to the node next
RunAfter(next) == IF next = "END" THEN "finished" ELSE "running"

\* a node runs while app.invoke has super-steps left
CanRun(n) == run = "running" /\ node = n /\ steps < recursion_limit

\* the inputs the model draws for the call of one attempt: every response
\* for the first chunk of a short document, with a call that takes longer
\* than the delay for two of them; three responses for the later chunks;
\* and the object with a reported correct letter; for a long document, calls
\* that all raise or all return the object
FirstInputs ==
    (Responses \X {1}) \cup ({Raises, Returns(GoodObject)} \X {RATE_LIMIT_DELAY + 1})
LaterInputs ==
    ({Raises, Returns(GoodObject), Returns(Sorry)} \X Durations)
    \cup {<<Returns(ReportsCorrect), 1>>}
LongInputs(index, status) ==
    IF index = 0 THEN {Raises, Returns(GoodObject)} \X {1}
    ELSE IF status = "success" THEN {<<Returns(GoodObject), 1>>}
    ELSE {<<Raises, 1>>}
CallInputs(index, cs, status) ==
    IF Len(cs) > MaxChunks THEN LongInputs(index, status)
    ELSE IF index = 0 THEN FirstInputs
    ELSE LaterInputs

(***************************************************************************)
(* The state machine.                                                      *)
(***************************************************************************)
\* batch_process_pdfs before it is called, for a directory that os.path.exists
\* finds or not and for what os.listdir returns for it
Directory(exists, listing) ==
    [phase |-> "called", exists |-> exists, listing |-> listing,
     pdf_files |-> << >>, position |-> 0, results |-> << >>, calls |-> << >>]

\* batch_process_pdfs is not called in the run
NotCalled == [Directory(FALSE, << >>) EXCEPT !.phase = "idle"]

\* initial_state, the module's globals and the clock when app.invoke is called
initial_state ==
    /\ node = "load_pdf"
    /\ run = "running"
    /\ steps = 0
    /\ raw_pages = << >>
    /\ answer_pages = << >>
    /\ chunks = << >>
    /\ parsed = << >>
    /\ errors = << >>
    /\ current_chunk_index = 0
    /\ parsing_status = ""
    /\ answer_key = << >>
    /\ last_request_time = 0
    /\ now = StartTime
    /\ in_flight = {}
    /\ attempts = << >>
    /\ response_content = << >>
    /\ json_str = << >>
    /\ record_dict = << >>
    /\ processed_text = << >>

\* the run of the entry point, for the PDF files the directory holds
Init ==
    /\ pdf_files \in [questions : QuestionFiles, answers : AnswerFiles]
    /\ batch = NotCalled
    /\ raw_text = << >>
    /\ initial_state

\* what load_pdf leaves in the state for the two files
Loaded(qf, af) ==
    LET e1 == IF qf.exists THEN << >>
              ELSE <<Error("Questions PDF not found", 0, 0, "")>>
        e2 == IF af.exists THEN << >>
              ELSE <<Error("Answers PDF not found", 0, 0, "")>>
    IN  IF qf.exists /\ qf.raises
        THEN [raw_pages |-> << >>, answer_pages |-> << >>,
              errors |-> <<Error("Failed to load PDF files", 0, 0, "questions")>>]
        ELSE IF af.exists /\ af.raises
        THEN [raw_pages |-> << >>, answer_pages |-> << >>,
              errors |-> e1 \o <<Error("Failed to load PDF files", 0, 0, "answers")>>]
        ELSE [raw_pages |-> qf.pages, answer_pages |-> af.pages, errors |-> e1 \o e2]

load_pdf ==
    /\ CanRun("load_pdf")
    /\ raw_pages' = Loaded(pdf_files.questions, pdf_files.answers).raw_pages
    /\ answer_pages' = Loaded(pdf_files.questions, pdf_files.answers).answer_pages
    /\ errors' = errors \o Loaded(pdf_files.questions, pdf_files.answers).errors
    /\ node' = "parse_answer_key"
    /\ steps' = steps + 1
    /\ UNCHANGED <<batch, pdf_files, raw_text, processed_text, run, chunks, parsed,
                   current_chunk_index, parsing_status, answer_key, last_request_time,
                   now, in_flight, attempts, response_content, json_str, record_dict>>

parse_answer_key ==
    /\ CanRun("parse_answer_key")
    /\ answer_key' = ParsedAnswerKey(answer_pages)
    /\ node' = "split_pages"
    /\ steps' = steps + 1
    /\ UNCHANGED <<batch, pdf_files, raw_text, processed_text, run, raw_pages, answer_pages,
                   chunks, parsed, errors, current_chunk_index, parsing_status,
                   last_request_time, now, in_flight, attempts, response_content,
                   json_str, record_dict>>

split_pages ==
    /\ CanRun("split_pages")
    /\ chunks' = IF raw_pages = << >> THEN << >> ELSE SplitAllPages(raw_pages)
    /\ node' = AfterSplit(chunks')
    /\ run' = RunAfter(node')
    /\ steps' = steps + 1
    /\ UNCHANGED <<batch, pdf_files, raw_text, processed_text, raw_pages, answer_pages,
                   parsed, errors, current_chunk_index, parsing_status, answer_key,
                   last_request_time, now, in_flight, attempts, response_content,
                   json_str, record_dict>>

\* llm_extract up to "last_request_time = time.time()": the rate limiter's
\* sleep, the chunk lookup and the timestamp; the call is then in flight
llm_extract_begin ==
    /\ CanRun("llm_extract_node")
    /\ in_flight = {}
    /\ LET current_time == now
           time_since_last_request == current_time - last_request_time
           issued == current_time + SleepTime(time_since_last_request)
       IN  IF current_chunk_index < Len(chunks)
           THEN /\ now' = issued
                /\ last_request_time' = RequestTime(issued)
                /\ in_flight' = {current_chunk_index}
                /\ attempts' = Append(attempts,
                                      [index |-> current_chunk_index, issued |-> issued,
                                       recorded |-> last_request_time'])
                /\ run' = run
           ELSE /\ now' = issued
                /\ run' = "IndexError"
                /\ UNCHANGED <<last_request_time, in_flight, attempts>>
    /\ UNCHANGED <<batch, pdf_files, raw_text, processed_text, node, steps, raw_pages,
                   answer_pages, chunks, parsed, errors, current_chunk_index,
                   parsing_status, answer_key, response_content, json_str, record_dict>>

\* the record appended before it is validated
MutReturned(x, duration) ==
    /\ now' = now + duration
    /\ parsed' = Append(parsed, x.record)
    /\ errors' = IF x.ok THEN errors
                 ELSE Append(errors, Error("LLM extraction failed",
                                           current_chunk_index + 1, Len(chunks),
                                           x.detail))
    /\ parsing_status' = IF x.ok THEN "success" ELSE "failure"
    /\ response_content' = x.response_content
    /\ json_str' = x.json_str
    /\ record_dict' = x.record_dict

\* the record put in front of the list
MutReturnedInFront(x, duration) ==
    /\ now' = now + duration
    /\ parsed' = IF x.ok THEN <<x.record>> \o parsed ELSE parsed
    /\ errors' = IF x.ok THEN errors
                 ELSE Append(errors, Error("LLM extraction failed",
                                           current_chunk_index + 1, Len(chunks),
                                           x.detail))
    /\ parsing_status' = IF x.ok THEN "success" ELSE "failure"
    /\ response_content' = x.response_content
    /\ json_str' = x.json_str
    /\ record_dict' = x.record_dict

\* what the try/except of llm_extract leaves in the state for the outcome x
\* of the attempt, the call having taken the time duration
Returned(x, duration) ==
    /\ now' = now + duration
    /\ parsed' = IF x.ok THEN Append(parsed, x.record) ELSE parsed
    /\ errors' = IF x.ok THEN errors
                 ELSE Append(errors, Error("LLM extraction failed",
                                           current_chunk_index + 1, Len(chunks),
                                           x.detail))
    /\ parsing_status' = IF x.ok THEN "success" ELSE "failure"
    /\ response_content' = x.response_content
    /\ json_str' = x.json_str
    /\ record_dict' = x.record_dict

\* the rest of llm_extract: the call returns or raises, and the response is
\* parsed, validated and cross-referenced
llm_extract_end ==
    /\ run = "running" /\ node = "llm_extract_node" /\ in_flight # {}
    /\ \E input \in CallInputs(current_chunk_index, chunks, parsing_status) :
          Returned(Extraction(input[1], chunks[current_chunk_index + 1],
                              current_chunk_index, answer_key), input[2])
    /\ in_flight' = {}
    /\ node' = AfterExtract(parsing_status')
    /\ steps' = steps + 1
    /\ UNCHANGED <<batch, pdf_files, raw_text, processed_text, run, raw_pages, answer_pages,
                   chunks, current_chunk_index, answer_key, last_request_time,
                   attempts>>

llm_fallback ==
    /\ CanRun("llm_fallback_node")
    /\ errors' = Append(errors, Error("Skipping due to parsing failure",
                                      current_chunk_index + 1, Len(chunks), ""))
    /\ parsing_status' = "failure"
    /\ node' = "assemble_json"
    /\ steps' = steps + 1
    /\ response_content' = << >> /\ json_str' = << >> /\ record_dict' = << >>
    /\ UNCHANGED <<batch, pdf_files, raw_text, processed_text, run, raw_pages, answer_pages,
                   chunks, parsed, current_chunk_index, answer_key, last_request_time,
                   now, in_flight, attempts>>

assemble_json ==
    /\ CanRun("assemble_json")
    /\ current_chunk_index' = NextIndex(current_chunk_index)
    /\ node' = AfterAssemble(current_chunk_index', chunks)
    /\ run' = RunAfter(node')
    /\ steps' = steps + 1
    /\ response_content' = << >> /\ json_str' = << >> /\ record_dict' = << >>
    /\ UNCHANGED <<batch, pdf_files, raw_text, processed_text, raw_pages, answer_pages,
                   chunks, parsed, errors, parsing_status, answer_key,
                   last_request_time, now, in_flight, attempts>>

\* app.invoke(initial_state, {"recursion_limit": 500}): LangGraph raises
\* GraphRecursionError when the super-steps are used up before END
GraphRecursionError ==
    /\ run = "running" /\ node # "END" /\ in_flight = {}
    /\ steps >= recursion_limit
    /\ run' = "GraphRecursionError"
    /\ UNCHANGED <<batch, pdf_files, raw_text, processed_text, node, steps, raw_pages,
                   answer_pages, chunks, parsed, errors, current_chunk_index,
                   parsing_status, answer_key, last_request_time, now, in_flight,
                   attempts, response_content, json_str, record_dict>>

Next ==
    \/ load_pdf
    \/ parse_answer_key
    \/ split_pages
    \/ llm_extract_begin
    \/ llm_extract_end
    \/ llm_fallback
    \/ assemble_json
    \/ GraphRecursionError

Spec == Init /\ [][Next]_vars

(***************************************************************************)
(* parse_answer_key on its own: the run up to parse_answer_key, for an     *)
(* answers file of one page drawn from a family of answer-key texts.       *)
(***************************************************************************)
\* one entry of an answer key: a number, a separator and a letter
AnswerEntries ==
    {FormatInt(n) \o sep \o <<letter>> :
        n \in 0..MaxNumber,
        sep \in {<<".", " ">>, <<")", " ">>, <<" ">>},
        letter \in {"A", "b", "E"}}

\* the grid "1 A 2 B 3 C 4 D 5 A ... n ." on one line
RECURSIVE TabularText(_)
TabularText(n) ==
    IF n = 0 THEN << >>
    ELSE TabularText(n - 1) \o (IF n > 1 THEN <<" ">> ELSE << >>)
         \o FormatInt(n) \o <<" ", CASE n % 4 = 1 -> "A" [] n % 4 = 2 -> "B"
                                     [] n % 4 = 3 -> "C" [] OTHER -> "D">>

\* the answer-key texts: one entry, two entries on one line or on two, the
\* text "1. A\n2) B\n3 - C", and grids just below and at the threshold of
\* the alternative parsing
AnswerTexts ==
    AnswerEntries
    \cup {e1 \o j \o e2 : e1 \in AnswerEntries, e2 \in AnswerEntries,
                          j \in {<<"\n">>, <<" ">>}}
    \cup {<<"1",".", " ","A","\n","2",")"," ","B","\n","3"," ","-"," ","C">>,
          TabularText(ALTERNATIVE_THRESHOLD - 1), TabularText(ALTERNATIVE_THRESHOLD)}

KeyInit ==
    /\ pdf_files \in [questions : {File(<< >>)},
                      answers : {File(<<Page(t)>>) : t \in AnswerTexts}]
    /\ batch = NotCalled
    /\ raw_text = << >>
    /\ initial_state

KeyNext == load_pdf \/ parse_answer_key

KeySpec == KeyInit /\ [][KeyNext]_vars

(***************************************************************************)
(* split_pages on its own: the run up to split_pages, for a questions file *)
(* of one page drawn from a family of page texts, or of two pages.         *)
(***************************************************************************)
\* the page text of Scenario A
ScenarioA ==
    <<
        "1","."," ","W","h","a","t"," ","i","s"," ","2","+","2","?","\n","A",")",
        " ","3","\n","B",")"," ","4","\n","C",")"," ","5","\n","D",")"," ","6","\n",
        "2","."," ","W","h","a","t"," ","i","s"," ","3","+","3","?","\n","A",")",
        " ","4","\n","B",")"," ","5","\n","C",")"," ","6","\n","D",")"," ","7">>

\* k lines of answer choices: "\nA) a\nB) b\nC) c..."
RECURSIVE Markers(_)
Markers(k) ==
    IF k = 0 THEN << >>
    ELSE Markers(k - 1)
         \o (CASE k % 4 = 1 -> <<"\n","A",")"," ","a">>
               [] k % 4 = 2 -> <<"\n","B",")"," ","b">>
               [] k % 4 = 3 -> <<"\n","C",")"," ","c">>
               [] OTHER     -> <<"\n","D",")"," ","d">>)

\* a page without question numbers: a prefix, filler, and k markers
CandidatePage(prefix, filler, k) == Page(prefix \o Rep("x", filler) \o Markers(k))

\* the pages of the model: candidate pages that start with nothing or with a
\* boilerplate phrase and hold so much filler that, with no prefix and three
\* markers (15 characters), they are far below, just below, at, and far
\* above the minimum length; a page whose boilerplate phrase lies behind the
\* first EXCLUSION_WINDOW characters; Scenario A; and pages that hold one
\* and two questions
SplitPageSet ==
    {CandidatePage(prefix, filler, k) :
        prefix \in {<< >>,
                    <<"D","i","r","e","c","t","i","o","n","s",":"," ">>,
                    <<"S","e","c","t","i","o","n"," ","2"," ">>,
                    <<"P","r","a","c","t","i","c","e"," ","T","e","s","t"," ">>},
        filler \in {0, MIN_CHUNK_LENGTH - 16, MIN_CHUNK_LENGTH - 15, EXCLUSION_WINDOW},
        k \in 2..MaxMarkers}
    \cup {CandidatePage(Rep("x", EXCLUSION_WINDOW)
                        \o <<" ","D","i","r","e","c","t","i","o","n","s",":">>, 0, 3),
          Page(ScenarioA),
          QuestionPage(1),
          Page(QuestionPage(1).page_content \o <<"\n">> \o QuestionPage(2).page_content)}

\* the questions files of two pages: a page that boundary detection splits
\* and a page that is left to the content-based split, in both orders, and
\* a page of two questions before a page of one
SplitDocuments ==
    {<<QuestionPage(1), CandidatePage(<< >>, MIN_CHUNK_LENGTH - 15, 3)>>,
     <<CandidatePage(<< >>, MIN_CHUNK_LENGTH - 15, 3), QuestionPage(1)>>,
     <<DirectionsPage, QuestionPage(2)>>,
     <<Page(QuestionPage(1).page_content \o <<"\n">> \o QuestionPage(2).page_content),
       QuestionPage(3)>>}

SplitInit ==
    /\ pdf_files \in [questions : {File(<<page>>) : page \in SplitPageSet}
                                      \cup {File(pages) : pages \in SplitDocuments},
                      answers : {File(<<AnswerPage>>)}]
    /\ batch = NotCalled
    /\ raw_text = << >>
    /\ initial_state

SplitNext == load_pdf \/ parse_answer_key \/ split_pages

SplitSpec == SplitInit /\ [][SplitNext]_vars

(***************************************************************************)
(* The math formatting repair: re.sub over the three rule lists.           *)
(* Characters outside ASCII are written by their Unicode names.            *)
(***************************************************************************)
LowerCase ==
    {"a", "b", "c", "d", "e", "f", "g", "h", "i", "j", "k", "l", "m",
     "n", "o", "p", "q", "r", "s", "t", "u", "v", "w", "x", "y", "z"}
UpperCase ==
    {"A", "B", "C", "D", "E", "F", "G", "H", "I", "J", "K", "L", "M",
     "N", "O", "P", "Q", "R", "S", "T", "U", "V", "W", "X", "Y", "Z"}
Letters == LowerCase \cup UpperCase
\* the characters of \w for str patterns: the alphanumerics and "_"
WordChars ==
    Letters \cup Digits
        \cup {"_", "SUPERSCRIPT TWO", "SUPERSCRIPT THREE", "SUPERSCRIPT FOUR",
              "GREEK SMALL LETTER PI"}

\* the items of a pattern: a character set repeated greedily from min to max
\* times (max = -1: no upper limit), inside capture group g (0: none)
Repeat(set, min, max, g) ==
    <<[kind |-> "set", set |-> set, min |-> min, max |-> max,
       alts |-> << >>, g |-> g]>>
\* the characters of w, one after the other
Literal(w, g) == [i \in 1..Len(w) |-> Repeat({w[i]}, 1, 1, g)[1]]
\* a|b|...: each alternative is a sequence of character sets
Branch(alts, g) ==
    <<[kind |-> "alt", set |-> {}, min |-> 1, max |-> 1, alts |-> alts,
       g |-> g]>>
\* \b
WordBoundary ==
    <<[kind |-> "b", set |-> {}, min |-> 0, max |-> 0, alts |-> << >>,
       g |-> 0]>>
\* the pieces of a replacement: \g and literal text
Group(g) == <<[g |-> g, text |-> << >>]>>
Text(w) == <<[g |-> 0, text |-> w]>>
Rule(pattern, replacement) ==
    [pattern |-> pattern, replacement |-> replacement]

\* MATH_FORMATTING_PATTERNS, the ordered (pattern, replacement) list: a pattern
\* is its items in order, a replacement its pieces in order
MATH_FORMATTING_PATTERNS ==
    <<Rule(  \* line 24
            Repeat(Digits, 1, -1, 1) \o Repeat(Letters, 0, -1, 2) \o
            Repeat(Whitespace, 0, -1, 0) \o Literal(<<"=">>, 0) \o
            Repeat(Whitespace, 0, -1, 0) \o Repeat(Digits, 1, -1, 3) \o
            Repeat(Whitespace, 0, -1, 0) \o
            Repeat(Letters \cup {"+", "-", "(", ")"}, 0, -1, 4) \o
            Repeat(Whitespace, 0, -1, 0) \o Repeat(Digits, 1, -1, 5) \o
            Repeat(Letters \cup {"+", "-", "(", ")"}, 0, -1, 6),
            Group(1) \o Group(2) \o Text(<<" ", "=", " ">>) \o Group(3) \o
            Group(4) \o Text(<<"/">>) \o Group(5) \o Group(6)),
      Rule(  \* line 25
            Repeat(Digits, 1, -1, 1) \o Repeat(Letters, 0, -1, 2) \o
            Repeat(Whitespace, 0, -1, 0) \o Literal(<<"/">>, 0) \o
            Repeat(Whitespace, 0, -1, 0) \o Repeat(Digits, 1, -1, 3) \o
            Repeat(Letters, 0, -1, 4) \o Repeat(Whitespace, 0, -1, 0) \o
            Literal(<<"=">>, 0) \o Repeat(Whitespace, 0, -1, 0) \o
            Repeat(Digits, 1, -1, 5) \o Repeat(Whitespace, 0, -1, 0) \o
            Repeat(Letters \cup {"+", "-", "(", ")"}, 0, -1, 6) \o
            Repeat(Whitespace, 0, -1, 0) \o Repeat(Digits, 1, -1, 7) \o
            Repeat(Letters \cup {"+", "-", "(", ")"}, 0, -1, 8),
            Group(1) \o Group(2) \o Text(<<"/">>) \o Group(3) \o Group(4) \o
            Text(<<" ", "=", " ">>) \o Group(5) \o Group(6) \o
            Text(<<"/">>) \o Group(7) \o Group(8)),
      Rule(  \* line 28
            Repeat(Digits, 1, -1, 1) \o Repeat(Whitespace, 0, -1, 0) \o
            Repeat(Letters \cup {"+", "-", "(", ")"}, 0, -1, 2) \o
            Repeat(Whitespace, 0, -1, 0) \o Literal(<<"SQUARE ROOT">>, 0) \o
            Repeat(Whitespace, 0, -1, 0) \o Literal(<<"(">>, 0) \o
            Repeat(Whitespace, 0, -1, 0) \o
            Repeat(Letters \cup Digits \cup Whitespace \cup {"+", "-", "(", ")"}, 1, -1, 3) \o
            Repeat(Whitespace, 0, -1, 0) \o Literal(<<")">>, 0),
            Group(1) \o Group(2) \o Text(<<"SQUARE ROOT", "(">>) \o
            Group(3) \o Text(<<")">>)),
      Rule(  \* line 29
            Repeat(Digits, 1, -1, 1) \o Repeat(Whitespace, 0, -1, 0) \o
            Repeat(Letters \cup {"+", "-", "(", ")"}, 0, -1, 2) \o
            Repeat(Whitespace, 0, -1, 0) \o Literal(<<"SQUARE ROOT">>, 0) \o
            Repeat(Whitespace, 0, -1, 0) \o
            Repeat(Letters \cup Digits \cup {"+", "-"}, 1, -1, 3),
            Group(1) \o Group(2) \o Text(<<"SQUARE ROOT">>) \o Group(3)),
      Rule(  \* line 30
            Literal(<<"=">>, 0) \o Repeat(Whitespace, 0, -1, 0) \o
            Repeat(Digits, 1, -1, 1) \o Repeat(Whitespace, 0, -1, 0) \o
            Repeat(Letters \cup {"+", "-", "(", ")"}, 0, -1, 2) \o
            Repeat(Whitespace, 0, -1, 0) \o Literal(<<"SQUARE ROOT">>, 0) \o
            Repeat(Whitespace, 0, -1, 0) \o
            Repeat(Letters \cup Digits \cup Whitespace \cup {"+", "-", "(", ")"}, 1, -1, 3),
            Text(<<"=", " ">>) \o Group(1) \o Group(2) \o
            Text(<<"SQUARE ROOT">>) \o Group(3)),
      Rule(  \* line 33
            Repeat(Letters \cup Digits \cup {")"}, 1, -1, 1) \o
            Repeat(Whitespace, 0, -1, 0) \o Literal(<<"^">>, 0) \o
            Repeat(Whitespace, 0, -1, 0) \o Repeat(Digits, 1, -1, 2),
            Group(1) \o Text(<<"^">>) \o Group(2)),
      Rule(  \* line 34
            Repeat(Letters \cup Digits \cup {")"}, 1, -1, 1) \o
            Repeat(Whitespace, 0, -1, 0) \o Literal(<<"*", "*">>, 0) \o
            Repeat(Whitespace, 0, -1, 0) \o Repeat(Digits, 1, -1, 2),
            Group(1) \o Text(<<"^">>) \o Group(2)),
      Rule(  \* line 35
            Repeat(Letters \cup Digits \cup {")"}, 1, -1, 1) \o
            Repeat(Whitespace, 0, -1, 0) \o Repeat(Digits, 1, -1, 2) \o
            Repeat(Whitespace, 0, -1, 0) \o
            Repeat(Letters \cup {"+", "-", "(", ")"}, 0, -1, 3),
            Group(1) \o Text(<<"^">>) \o Group(2) \o Group(3)),
      Rule(  \* line 38
            Repeat(WordChars, 1, -1, 1) \o Repeat(Whitespace, 0, -1, 0) \o
            Literal(<<"=">>, 0) \o Repeat(Whitespace, 0, -1, 0) \o
            Repeat(Digits, 1, -1, 2) \o Repeat(Whitespace, 0, -1, 0) \o
            Repeat(Letters \cup {"+", "-", "(", ")"}, 0, -1, 3) \o
            Repeat(Whitespace, 0, -1, 0) \o Repeat(Digits, 1, -1, 4),
            Group(1) \o Text(<<" ", "=", " ">>) \o Group(2) \o Group(3) \o
            Text(<<" ", "+", " ">>) \o Group(4)),
      Rule(  \* line 39
            Repeat(WordChars, 1, -1, 1) \o Repeat(Whitespace, 0, -1, 0) \o
            Literal(<<"=">>, 0) \o Repeat(Whitespace, 0, -1, 0) \o
            Repeat(Digits, 1, -1, 2) \o Repeat(Whitespace, 0, -1, 0) \o
            Repeat(Letters \cup {"+", "-", "(", ")"}, 0, -1, 3) \o
            Repeat(Whitespace, 0, -1, 0) \o
            Repeat(Letters \cup {"+", "-", "(", ")"}, 1, -1, 4),
            Group(1) \o Text(<<" ", "=", " ">>) \o Group(2) \o Group(3) \o
            Group(4)),
      Rule(  \* line 42
            Repeat(Digits, 1, -1, 1) \o Repeat(Whitespace, 0, -1, 0) \o
            Literal(<<"x">>, 0) \o Repeat(Whitespace, 0, -1, 0) \o
            Literal(<<"/">>, 0) \o Repeat(Whitespace, 0, -1, 0) \o
            Repeat(Digits, 1, -1, 2) \o Repeat(Whitespace, 0, -1, 0) \o
            Literal(<<"y">>, 0),
            Group(1) \o Text(<<"x", "/">>) \o Group(2) \o Text(<<"y">>)),
      Rule(  \* line 43
            Repeat(Digits, 1, -1, 1) \o Repeat(Whitespace, 0, -1, 0) \o
            Literal(<<"x">>, 0) \o Repeat(Whitespace, 0, -1, 0) \o
            Literal(<<"=">>, 0) \o Repeat(Whitespace, 0, -1, 0) \o
            Repeat(Digits, 1, -1, 2) \o Repeat(Whitespace, 0, -1, 0) \o
            Repeat(Letters \cup {"+", "-", "(", ")"}, 0, -1, 3) \o
            Repeat(Whitespace, 0, -1, 0) \o Repeat(Digits, 1, -1, 4) \o
            Repeat(Whitespace, 0, -1, 0) \o
            Repeat(Letters \cup {"+", "-", "(", ")"}, 0, -1, 5),
            Group(1) \o Text(<<"x", " ", "=", " ">>) \o Group(2) \o
            Group(3) \o Group(4) \o Group(5)),
      Rule(  \* line 46
            Repeat(Digits, 1, -1, 1) \o Repeat(Whitespace, 0, -1, 0) \o
            Literal(<<"+">>, 0) \o Repeat(Whitespace, 0, -1, 0) \o
            Repeat(Digits, 1, -1, 2),
            Group(1) \o Text(<<" ", "+", " ">>) \o Group(2)),
      Rule(  \* line 47
            Repeat(Digits, 1, -1, 1) \o Repeat(Whitespace, 0, -1, 0) \o
            Literal(<<"-">>, 0) \o Repeat(Whitespace, 0, -1, 0) \o
            Repeat(Digits, 1, -1, 2),
            Group(1) \o Text(<<" ", "-", " ">>) \o Group(2)),
      Rule(  \* line 48
            Repeat(Digits, 1, -1, 1) \o Repeat(Whitespace, 0, -1, 0) \o
            Literal(<<"*">>, 0) \o Repeat(Whitespace, 0, -1, 0) \o
            Repeat(Digits, 1, -1, 2),
            Group(1) \o Text(<<" ", "MULTIPLICATION SIGN", " ">>) \o Group(2)),
      Rule(  \* line 49
            Repeat(Digits, 1, -1, 1) \o Repeat(Whitespace, 0, -1, 0) \o
            Literal(<<"x">>, 0) \o Repeat(Whitespace, 0, -1, 0) \o
            Repeat(Digits, 1, -1, 2),
            Group(1) \o Text(<<"x">>) \o Group(2)),
      Rule(  \* line 52
            Repeat(WordChars, 1, -1, 1) \o Repeat(Whitespace, 0, -1, 0) \o
            Literal(<<"(">>, 0) \o Repeat(Whitespace, 0, -1, 0) \o
            Repeat(Letters \cup Digits \cup Whitespace \cup {"+", "-"}, 1, -1, 2) \o
            Repeat(Whitespace, 0, -1, 0) \o Literal(<<")">>, 0),
            Group(1) \o Text(<<"(">>) \o Group(2) \o Text(<<")">>)),
      Rule(  \* line 55
            Repeat(WordChars, 1, -1, 1) \o Repeat(Whitespace, 0, -1, 0) \o
            Literal(<<"LESS-THAN OR EQUAL TO">>, 0) \o
            Repeat(Whitespace, 0, -1, 0) \o Repeat(Digits, 1, -1, 2),
            Group(1) \o Text(<<" ", "LESS-THAN OR EQUAL TO", " ">>) \o
            Group(2)),
      Rule(  \* line 56
            Repeat(WordChars, 1, -1, 1) \o Repeat(Whitespace, 0, -1, 0) \o
            Literal(<<"GREATER-THAN OR EQUAL TO">>, 0) \o
            Repeat(Whitespace, 0, -1, 0) \o Repeat(Digits, 1, -1, 2),
            Group(1) \o Text(<<" ", "GREATER-THAN OR EQUAL TO", " ">>) \o
            Group(2)),
      Rule(  \* line 57
            Repeat(WordChars, 1, -1, 1) \o Repeat(Whitespace, 0, -1, 0) \o
            Literal(<<"<">>, 0) \o Repeat(Whitespace, 0, -1, 0) \o
            Repeat(Digits, 1, -1, 2),
            Group(1) \o Text(<<" ", "<", " ">>) \o Group(2)),
      Rule(  \* line 58
            Repeat(WordChars, 1, -1, 1) \o Repeat(Whitespace, 0, -1, 0) \o
            Literal(<<">">>, 0) \o Repeat(Whitespace, 0, -1, 0) \o
            Repeat(Digits, 1, -1, 2),
            Group(1) \o Text(<<" ", ">", " ">>) \o Group(2)),
      Rule(  \* line 61
            Literal(<<"|">>, 0) \o Repeat(Whitespace, 0, -1, 0) \o
            Repeat(Letters \cup Digits \cup Whitespace \cup {"+", "-"}, 1, -1, 1) \o
            Repeat(Whitespace, 0, -1, 0) \o Literal(<<"|">>, 0),
            Text(<<"|">>) \o Group(1) \o Text(<<"|">>))>>

\* the list fixes of fix_common_sat_math_patterns
fixes ==
    <<Rule(  \* line 136
            Repeat(Digits, 1, -1, 1) \o Repeat(Letters, 1, 1, 2) \o
            Repeat(Whitespace, 0, -1, 0) \o Literal(<<"=">>, 0) \o
            Repeat(Whitespace, 0, -1, 0) \o Repeat(Digits, 1, -1, 3) \o
            Repeat(Whitespace, 0, -1, 0) \o Repeat(Letters, 1, 1, 4) \o
            Repeat(Whitespace, 0, -1, 0) \o Literal(<<"+">>, 0) \o
            Repeat(Whitespace, 0, -1, 0) \o Repeat(Digits, 1, -1, 5) \o
            Repeat(Whitespace, 0, -1, 0) \o Repeat(Digits, 1, -1, 6) \o
            Repeat(Letters, 1, 1, 7),
            Group(1) \o Group(2) \o Text(<<" ", "=", " ">>) \o Group(3) \o
            Group(4) \o Text(<<" ", "+", " ">>) \o Group(5) \o
            Text(<<"/">>) \o Group(6) \o Group(7)),
      Rule(  \* line 137
            Repeat(Digits, 1, -1, 1) \o Repeat(Letters, 1, 1, 2) \o
            Repeat(Whitespace, 0, -1, 0) \o Literal(<<"=">>, 0) \o
            Repeat(Whitespace, 0, -1, 0) \o Repeat(Digits, 1, -1, 3) \o
            Repeat(Whitespace, 0, -1, 0) \o Repeat(Letters, 1, 1, 4) \o
            Repeat(Whitespace, 0, -1, 0) \o Literal(<<"-">>, 0) \o
            Repeat(Whitespace, 0, -1, 0) \o Repeat(Digits, 1, -1, 5) \o
            Repeat(Whitespace, 0, -1, 0) \o Repeat(Digits, 1, -1, 6) \o
            Repeat(Letters, 1, 1, 7),
            Group(1) \o Group(2) \o Text(<<" ", "=", " ">>) \o Group(3) \o
            Group(4) \o Text(<<" ", "-", " ">>) \o Group(5) \o
            Text(<<"/">>) \o Group(6) \o Group(7)),
      Rule(  \* line 140
            Repeat(Digits, 1, -1, 1) \o Repeat(Whitespace, 0, -1, 0) \o
            Literal(<<"SQUARE ROOT">>, 0) \o Repeat(Whitespace, 0, -1, 0) \o
            Literal(<<"(">>, 0) \o Repeat(Whitespace, 0, -1, 0) \o
            Repeat(Letters \cup Digits \cup Whitespace \cup {"+", "-"}, 1, -1, 2) \o
            Repeat(Whitespace, 0, -1, 0) \o Literal(<<")">>, 0),
            Group(1) \o Text(<<"SQUARE ROOT", "(">>) \o Group(2) \o
            Text(<<")">>)),
      Rule(  \* line 141
            Repeat(Digits, 1, -1, 1) \o Repeat(Whitespace, 0, -1, 0) \o
            Literal(<<"SQUARE ROOT">>, 0) \o Repeat(Whitespace, 0, -1, 0) \o
            Repeat(Letters \cup Digits, 1, -1, 2),
            Group(1) \o Text(<<"SQUARE ROOT">>) \o Group(2)),
      Rule(  \* line 144
            Repeat(Letters, 1, 1, 1) \o Repeat(Whitespace, 0, -1, 0) \o
            Literal(<<"2">>, 0) \o WordBoundary,
            Group(1) \o Text(<<"SUPERSCRIPT TWO">>)),
      Rule(  \* line 145
            Repeat(Letters, 1, 1, 1) \o Repeat(Whitespace, 0, -1, 0) \o
            Literal(<<"3">>, 0) \o WordBoundary,
            Group(1) \o Text(<<"SUPERSCRIPT THREE">>)),
      Rule(  \* line 146
            Repeat(Letters, 1, 1, 1) \o Repeat(Whitespace, 0, -1, 0) \o
            Literal(<<"4">>, 0) \o WordBoundary,
            Group(1) \o Text(<<"SUPERSCRIPT FOUR">>)),
      Rule(  \* line 149
            Repeat(Letters, 1, 1, 1) \o Repeat(Whitespace, 0, -1, 0) \o
            Literal(<<"^">>, 0) \o Repeat(Whitespace, 0, -1, 0) \o
            Repeat(Digits, 1, -1, 2),
            Group(1) \o Text(<<"^">>) \o Group(2)),
      Rule(  \* line 150
            Repeat(Letters, 1, 1, 1) \o Repeat(Whitespace, 0, -1, 0) \o
            Literal(<<"*", "*">>, 0) \o Repeat(Whitespace, 0, -1, 0) \o
            Repeat(Digits, 1, -1, 2),
            Group(1) \o Text(<<"^">>) \o Group(2)),
      Rule(  \* line 153
            Repeat(Digits, 1, -1, 1) \o Repeat(Whitespace, 0, -1, 0) \o
            Literal(<<"o", "v", "e", "r">>, 0) \o
            Repeat(Whitespace, 0, -1, 0) \o Repeat(Digits, 1, -1, 2),
            Group(1) \o Text(<<"/">>) \o Group(2)),
      Rule(  \* line 154
            Repeat(Digits, 1, -1, 1) \o Repeat(Whitespace, 0, -1, 0) \o
            Literal(<<"d", "i", "v", "i", "d", "e", "d">>, 0) \o
            Repeat(Whitespace, 0, -1, 0) \o Literal(<<"b", "y">>, 0) \o
            Repeat(Whitespace, 0, -1, 0) \o Repeat(Digits, 1, -1, 2),
            Group(1) \o Text(<<"/">>) \o Group(2)),
      Rule(  \* line 157
            Repeat(Digits, 1, -1, 1) \o Repeat(Whitespace, 0, -1, 0) \o
            Literal(<<"p", "e", "r", "c", "e", "n", "t">>, 0),
            Group(1) \o Text(<<"%">>)),
      Rule(  \* line 158
            Repeat(Digits, 1, -1, 1) \o Repeat(Whitespace, 0, -1, 0) \o
            Literal(<<"%">>, 0),
            Group(1) \o Text(<<"%">>)),
      Rule(  \* line 161
            Repeat(Whitespace, 0, -1, 0) \o
            Literal(<<"MULTIPLICATION SIGN">>, 0) \o
            Repeat(Whitespace, 0, -1, 0),
            Text(<<" ", "MULTIPLICATION SIGN", " ">>)),
      Rule(  \* line 162
            Repeat(Whitespace, 0, -1, 0) \o
            Literal(<<"DIVISION SIGN">>, 0) \o Repeat(Whitespace, 0, -1, 0),
            Text(<<" ", "DIVISION SIGN", " ">>)),
      Rule(  \* line 163
            Repeat(Whitespace, 0, -1, 0) \o
            Literal(<<"PLUS-MINUS SIGN">>, 0) \o Repeat(Whitespace, 0, -1, 0),
            Text(<<" ", "PLUS-MINUS SIGN", " ">>)),
      Rule(  \* line 166
            Repeat(Digits, 1, -1, 1) \o Repeat(Whitespace, 0, -1, 0) \o
            Literal(<<"d", "e", "g", "r", "e", "e">>, 0) \o
            Repeat({"s"}, 0, 1, 0),
            Group(1) \o Text(<<"DEGREE SIGN">>)),
      Rule(  \* line 167
            Repeat(Digits, 1, -1, 1) \o Repeat(Whitespace, 0, -1, 0) \o
            Literal(<<"DEGREE SIGN">>, 0),
            Group(1) \o Text(<<"DEGREE SIGN">>)),
      Rule(  \* line 170
            Literal(<<"(">>, 0) \o Repeat(Whitespace, 0, -1, 0) \o
            Repeat(Letters \cup Digits \cup {"+", "-"}, 1, -1, 1) \o
            Repeat(Whitespace, 0, -1, 0) \o Literal(<<",">>, 0) \o
            Repeat(Whitespace, 0, -1, 0) \o
            Repeat(Letters \cup Digits \cup {"+", "-"}, 1, -1, 2) \o
            Repeat(Whitespace, 0, -1, 0) \o Literal(<<")">>, 0),
            Text(<<"(">>) \o Group(1) \o Text(<<",", " ">>) \o Group(2) \o
            Text(<<")">>)),
      Rule(  \* line 173
            Literal(<<"[">>, 0) \o Repeat(Whitespace, 0, -1, 0) \o
            Repeat(Letters \cup Digits \cup {"+", "-"}, 1, -1, 1) \o
            Repeat(Whitespace, 0, -1, 0) \o Literal(<<",">>, 0) \o
            Repeat(Whitespace, 0, -1, 0) \o
            Repeat(Letters \cup Digits \cup {"+", "-"}, 1, -1, 2) \o
            Repeat(Whitespace, 0, -1, 0) \o Literal(<<"]">>, 0),
            Text(<<"[">>) \o Group(1) \o Text(<<",", " ">>) \o Group(2) \o
            Text(<<"]">>)),
      Rule(  \* line 174
            Literal(<<"(">>, 0) \o Repeat(Whitespace, 0, -1, 0) \o
            Repeat(Letters \cup Digits \cup {"+", "-"}, 1, -1, 1) \o
            Repeat(Whitespace, 0, -1, 0) \o Literal(<<",">>, 0) \o
            Repeat(Whitespace, 0, -1, 0) \o
            Repeat(Letters \cup Digits \cup {"+", "-"}, 1, -1, 2) \o
            Repeat(Whitespace, 0, -1, 0) \o Literal(<<")">>, 0),
            Text(<<"(">>) \o Group(1) \o Text(<<",", " ">>) \o Group(2) \o
            Text(<<")">>)),
      Rule(  \* line 177
            WordBoundary \o Literal(<<"p", "i">>, 0) \o WordBoundary,
            Text(<<"GREEK SMALL LETTER PI">>)),
      Rule(  \* line 178
            WordBoundary \o Literal(<<"P", "i">>, 0) \o WordBoundary,
            Text(<<"GREEK SMALL LETTER PI">>)),
      Rule(  \* line 181
            WordBoundary \o
            Literal(<<"i", "n", "f", "i", "n", "i", "t", "y">>, 0) \o
            WordBoundary,
            Text(<<"INFINITY">>)),
      Rule(  \* line 182
            WordBoundary \o
            Literal(<<"I", "N", "F", "I", "N", "I", "T", "Y">>, 0) \o
            WordBoundary,
            Text(<<"INFINITY">>)),
      Rule(  \* line 185
            WordBoundary \o Literal(<<"s", "i", "n">>, 0) \o
            Repeat(Whitespace, 0, -1, 0) \o Literal(<<"(">>, 0) \o
            Repeat(Whitespace, 0, -1, 0) \o
            Repeat(Letters \cup Digits \cup {"+", "-"}, 1, -1, 1) \o
            Repeat(Whitespace, 0, -1, 0) \o Literal(<<")">>, 0),
            Text(<<"s", "i", "n", "(">>) \o Group(1) \o Text(<<")">>)),
      Rule(  \* line 186
            WordBoundary \o Literal(<<"c", "o", "s">>, 0) \o
            Repeat(Whitespace, 0, -1, 0) \o Literal(<<"(">>, 0) \o
            Repeat(Whitespace, 0, -1, 0) \o
            Repeat(Letters \cup Digits \cup {"+", "-"}, 1, -1, 1) \o
            Repeat(Whitespace, 0, -1, 0) \o Literal(<<")">>, 0),
            Text(<<"c", "o", "s", "(">>) \o Group(1) \o Text(<<")">>)),
      Rule(  \* line 187
            WordBoundary \o Literal(<<"t", "a", "n">>, 0) \o
            Repeat(Whitespace, 0, -1, 0) \o Literal(<<"(">>, 0) \o
            Repeat(Whitespace, 0, -1, 0) \o
            Repeat(Letters \cup Digits \cup {"+", "-"}, 1, -1, 1) \o
            Repeat(Whitespace, 0, -1, 0) \o Literal(<<")">>, 0),
            Text(<<"t", "a", "n", "(">>) \o Group(1) \o Text(<<")">>)),
      Rule(  \* line 188
            WordBoundary \o Literal(<<"l", "o", "g">>, 0) \o
            Repeat(Whitespace, 0, -1, 0) \o Literal(<<"(">>, 0) \o
            Repeat(Whitespace, 0, -1, 0) \o
            Repeat(Letters \cup Digits \cup {"+", "-"}, 1, -1, 1) \o
            Repeat(Whitespace, 0, -1, 0) \o Literal(<<")">>, 0),
            Text(<<"l", "o", "g", "(">>) \o Group(1) \o Text(<<")">>)),
      Rule(  \* line 189
            WordBoundary \o Literal(<<"l", "n">>, 0) \o
            Repeat(Whitespace, 0, -1, 0) \o Literal(<<"(">>, 0) \o
            Repeat(Whitespace, 0, -1, 0) \o
            Repeat(Letters \cup Digits \cup {"+", "-"}, 1, -1, 1) \o
            Repeat(Whitespace, 0, -1, 0) \o Literal(<<")">>, 0),
            Text(<<"l", "n", "(">>) \o Group(1) \o Text(<<")">>))>>

\* the list year_fixes of fix_year_patterns
year_fixes ==
    <<Rule(  \* line 221
            Repeat(Letters, 1, 1, 1) \o Literal(<<"^">>, 0) \o
            Branch(<<<<{"1"}, {"9"}, Digits, Digits>>, <<{"2"}, {"0"}, Digits, Digits>>>>, 2) \o
            Repeat(Letters, 1, 1, 3),
            Group(1) \o Text(<<" ">>) \o Group(2) \o Text(<<" ">>) \o Group(3)),
      Rule(  \* line 222
            Repeat(Letters, 1, 1, 1) \o Literal(<<"^">>, 0) \o
            Branch(<<<<{"1"}, {"9"}, Digits, Digits>>, <<{"2"}, {"0"}, Digits, Digits>>>>, 2) \o
            WordBoundary,
            Group(1) \o Text(<<" ">>) \o Group(2)),
      Rule(  \* line 225
            Repeat(Letters, 1, 1, 1) \o
            Branch(<<<<{"1"}, {"9"}, Digits, Digits>>, <<{"2"}, {"0"}, Digits, Digits>>>>, 2) \o
            Repeat(Letters, 1, 1, 3),
            Group(1) \o Text(<<" ">>) \o Group(2) \o Text(<<" ">>) \o Group(3)),
      Rule(  \* line 228
            Repeat(Letters, 1, 1, 1) \o Literal(<<"^">>, 0) \o
            Branch(<<<<{"1"}, {"9"}, Digits, Digits>>, <<{"2"}, {"0"}, Digits, Digits>>>>, 2) \o
            Literal(<<"s">>, 0) \o WordBoundary,
            Group(1) \o Text(<<" ">>) \o Group(2) \o Text(<<"s">>)),
      Rule(  \* line 231
            Repeat(Letters, 1, 1, 1) \o Literal(<<"^">>, 0) \o
            Branch(<<<<{"1"}, {"9"}, Digits, Digits>>, <<{"2"}, {"0"}, Digits, Digits>>>>, 2) \o
            Repeat({",", ".", "!", "?", ";", ":"}, 1, 1, 3),
            Group(1) \o Text(<<" ">>) \o Group(2) \o Group(3)),
      Rule(  \* line 234
            Branch(<<<<{"t"}, {"h"}, {"e"}>>, <<{"f"}, {"r"}, {"o"}, {"m"}>>, <<{"i"}, {"n"}>>, <<{"s"}, {"i"}, {"n"}, {"c"}, {"e"}>>, <<{"a"}, {"f"}, {"t"}, {"e"}, {"r"}>>, <<{"b"}, {"e"}, {"f"}, {"o"}, {"r"}, {"e"}>>, <<{"d"}, {"u"}, {"r"}, {"i"}, {"n"}, {"g"}>>, <<{"b"}, {"y"}>>>>, 1) \o
            Literal(<<"^">>, 0) \o
            Branch(<<<<{"1"}, {"9"}, Digits, Digits>>, <<{"2"}, {"0"}, Digits, Digits>>>>, 2) \o
            Repeat({"s"}, 0, 1, 0) \o WordBoundary,
            Group(1) \o Text(<<" ">>) \o Group(2) \o Text(<<"s">>)),
      Rule(  \* line 237
            Repeat(UpperCase, 1, 1, 1) \o Repeat(LowerCase, 1, -1, 1) \o
            Literal(<<"-">>, 0) \o Repeat(Digits, 1, -1, 2) \o
            Literal(<<"^">>, 0) \o Repeat(Digits, 1, -1, 3),
            Group(1) \o Text(<<"-">>) \o Group(2) \o Group(3)),
      Rule(  \* line 240
            Repeat(UpperCase, 1, 1, 1) \o Repeat(Letters, 1, -1, 1) \o
            Literal(<<"^">>, 0) \o
            Branch(<<<<{"1"}, {"9"}, Digits, Digits>>, <<{"2"}, {"0"}, Digits, Digits>>>>, 2),
            Group(1) \o Text(<<" ">>) \o Group(2))>>

\* the backtracking matcher of re: the items k.. of a pattern matched at
\* position i of t. ends[j] is the position after the j-th of these items.
NoMatch == [ok |-> FALSE, ends |-> << >>]

Then(end, rest) ==
    IF rest.ok THEN [ok |-> TRUE, ends |-> <<end>> \o rest.ends] ELSE NoMatch

OrElse(first, second) == IF first.ok THEN first ELSE second

IsWord(t, i) == i >= 1 /\ i <= Len(t) /\ t[i] \in WordChars

\* the most repetitions the item can take at i
Longest(t, i, item) ==
    IF item.max < 0 THEN SkipWhile(t, i, item.set) - i
    ELSE Min({item.max, SkipWhile(t, i, item.set) - i})

BranchAt(t, i, alt) ==
    /\ i + Len(alt) - 1 <= Len(t)
    /\ \A j \in 1..Len(alt) : t[i + j - 1] \in alt[j]

RECURSIVE MatchItems(_, _, _, _)
RECURSIVE TryCount(_, _, _, _, _)
RECURSIVE TryBranch(_, _, _, _, _)
MatchItems(items, k, t, i) ==
    IF k > Len(items) THEN [ok |-> TRUE, ends |-> << >>]
    ELSE IF items[k].kind = "b"
    THEN IF IsWord(t, i - 1) # IsWord(t, i)
         THEN Then(i, MatchItems(items, k + 1, t, i))
         ELSE NoMatch
    ELSE IF items[k].kind = "alt" THEN TryBranch(items, k, t, i, 1)
    ELSE TryCount(items, k, t, i, Longest(t, i, items[k]))

\* greedy: the longest count first, then one less, down to min
TryCount(items, k, t, i, count) ==
    IF count < items[k].min THEN NoMatch
    ELSE OrElse(Then(i + count, MatchItems(items, k + 1, t, i + count)),
                TryCount(items, k, t, i, count - 1))

\* the alternatives in their order
TryBranch(items, k, t, i, b) ==
    IF b > Len(items[k].alts) THEN NoMatch
    ELSE IF BranchAt(t, i, items[k].alts[b])
    THEN OrElse(Then(i + Len(items[k].alts[b]),
                     MatchItems(items, k + 1, t, i + Len(items[k].alts[b]))),
                TryBranch(items, k, t, i, b + 1))
    ELSE TryBranch(items, k, t, i, b + 1)

\* match.group(g) of the match that starts at start
GroupText(items, t, start, ends, g) ==
    SubSeq(t,
           IF Min({k \in 1..Len(items) : items[k].g = g}) = 1 THEN start
           ELSE ends[Min({k \in 1..Len(items) : items[k].g = g}) - 1],
           ends[Max({k \in 1..Len(items) : items[k].g = g})] - 1)

\* match.expand(replacement)
RECURSIVE Expand(_, _, _, _, _)
Expand(replacement, items, t, start, ends) ==
    IF replacement = << >> THEN << >>
    ELSE (IF replacement[1].g = 0 THEN replacement[1].text
          ELSE GroupText(items, t, start, ends, replacement[1].g))
         \o Expand(Tail(replacement), items, t, start, ends)

\* re.sub(pattern, replacement, t), from position pos on: the leftmost
\* match is replaced and the scan goes on after it (no pattern of the
\* lists matches the empty string)
RECURSIVE Sub(_, _, _)
SubAfter(rule, t, pos, start, ends) ==
    SubSeq(t, pos, start - 1)
        \o Expand(rule.replacement, rule.pattern, t, start, ends)
        \o Sub(rule, t, ends[Len(ends)])

SubAt(rule, t, pos, start) ==
    SubAfter(rule, t, pos, start, MatchItems(rule.pattern, 1, t, start).ends)

SubFrom(rule, t, pos, starts) ==
    IF starts = {} THEN SubSeq(t, pos, Len(t))
    ELSE SubAt(rule, t, pos, Min(starts))

Sub(rule, t, pos) ==
    SubFrom(rule, t, pos,
            {s \in pos..Len(t) : MatchItems(rule.pattern, 1, t, s).ok})

\* for pattern, replacement in rules: text = re.sub(pattern, replacement, text)
\* (no rule changes the empty text)
RECURSIVE ApplyRules(_, _)
ApplyRules(rules, t) ==
    IF rules = << >> \/ t = << >> THEN t
    ELSE ApplyRules(Tail(rules), Sub(rules[1], t, 1))

fix_common_sat_math_patterns(t) == ApplyRules(fixes, t)

fix_year_patterns(t) == IF t = << >> THEN t ELSE ApplyRules(year_fixes, t)

preprocess_math_formatting(t) ==
    IF t = << >> THEN t
    ELSE fix_year_patterns(
             fix_common_sat_math_patterns(
                 ApplyRules(MATH_FORMATTING_PATTERNS, t)))

\* the texts the repair is applied to: the equation of the test script's
\* first case and its variants, and short texts for the other rules
MathTexts ==
    {lhs \o eq \o term \o op \o frac :
        lhs \in {<<"1", "4", "x">>, <<"4", "x">>, <<"x">>},
        eq \in {<<" ", "=", " ">>, <<"=">>},
        term \in {<<"2", " ", "w">>, <<"2", "w">>, <<"2">>},
        op \in {<<" ", "+", " ">>, <<" ", "-", " ">>},
        frac \in {<<"1", "9", " ", "7", "y">>, <<"1", "9", "/", "7", "y">>,
                  <<"9", " ", "y">>}}
      \cup {<<"2", "5", " ", "p", "e", "r", "c", "e", "n", "t">>,
            <<"x", " ", "2", " ", "+", " ", "3", "x">>,
            <<"s", "i", "n", " ", "3", "0", " ", "d", "e", "g", "r", "e", "e", "s">>,
            <<"(", " ", "3", " ", ",", " ", "4", " ", ")">>,
            <<"2", " ", "p", "i", " ", "r">>,
            <<"i", "n", "^", "1", "9", "9", "9">>,
            <<"B", "a", "b", "e", "l", "-", "1", "^", "7">>}

MathInit ==
    /\ pdf_files = [questions |-> MissingFile, answers |-> MissingFile]
    /\ batch = NotCalled
    /\ raw_text \in MathTexts
    /\ initial_state

\* processed = preprocess_math_formatting(test_case["input"])
test_math_preprocessing ==
    /\ processed_text = << >>
    /\ processed_text' = preprocess_math_formatting(raw_text)
    /\ UNCHANGED <<batch, pdf_files, raw_text, node, run, steps, raw_pages,
                   answer_pages, chunks, parsed, errors, current_chunk_index,
                   parsing_status, answer_key, last_request_time, now,
                   in_flight, attempts, response_content, json_str,
                   record_dict>>

MathNext == test_math_preprocessing

MathSpec == MathInit /\ [][MathNext]_vars

(***************************************************************************)
(* batch_process_pdfs of utils/pdf_processing/pipeline.py, for a directory *)
(* of up to MaxFiles files.  process_pdf_and_store_in_db is an input of    *)
(* the model: each call raises or returns its two counts.                  *)
(***************************************************************************)
\* the names a directory may hold
FileNames ==
    {<<"a", ".", "p", "d", "f">>, <<"B", ".", "P", "d", "F">>,
     <<"c", ".", "t", "x", "t">>, <<"p", "d", "f">>,
     <<"d", ".", "p", "d", "f", ".", "b", "a", "k">>}

\* what os.listdir may return: names of the directory in any order, each once
Listings ==
    {l \in UNION {[1..n -> FileNames] : n \in 0..MaxFiles} :
        \A i, j \in 1..Len(l) : l[i] = l[j] => i = j}

\* the outcomes of a call of process_pdf_and_store_in_db
ProcessOutcomes ==
    {[raises |-> TRUE, processed |-> 0, stored |-> 0],
     [raises |-> FALSE, processed |-> 3, stored |-> 2]}

\* f.lower()
LowerText(f) == [i \in 1..Len(f) |-> Lower(f[i])]

\* every name counts as a PDF
MutIsPdfName(f) == TRUE

\* f.lower().endswith('.pdf')
IsPdfName(f) ==
    /\ Len(f) >= 4
    /\ SubSeq(LowerText(f), Len(f) - 3, Len(f)) = <<".", "p", "d", "f">>

\* [f for f in os.listdir(pdf_directory) if f.lower().endswith('.pdf')]
RECURSIVE PdfFiles(_)
PdfFiles(listing) ==
    IF listing = << >> THEN << >>
    ELSE (IF IsPdfName(Head(listing)) THEN <<Head(listing)>> ELSE << >>)
         \o PdfFiles(Tail(listing))

\* the try/except of the loop body: the counts of the call, or (0, 0)
ResultOf(outcome) ==
    IF outcome.raises THEN <<0, 0>> ELSE <<outcome.processed, outcome.stored>>

\* the phase after the file at position: the loop goes on or the function
\* returns results
AfterFile(position, pdf_files_list) ==
    IF position < Len(pdf_files_list) THEN "loop" ELSE "returned"

\* batch_process_pdfs up to the loop: FileNotFoundError for a directory that
\* does not exist, or the list pdf_files
batch_process_pdfs_begin ==
    /\ batch.phase = "called"
    /\ batch' =
          IF ~batch.exists THEN [batch EXCEPT !.phase = "FileNotFoundError"]
          ELSE [batch EXCEPT !.pdf_files = PdfFiles(batch.listing),
                             !.position = 1,
                             !.phase = AfterFile(0, PdfFiles(batch.listing))]
    /\ UNCHANGED <<pdf_files, raw_text, processed_text, node, run, steps,
                   raw_pages, answer_pages, chunks, parsed, errors,
                   current_chunk_index, parsing_status, answer_key,
                   last_request_time, now, in_flight, attempts,
                   response_content, json_str, record_dict>>

\* one pass of "for pdf_file in pdf_files", and the return after the last
batch_process_file ==
    /\ batch.phase = "loop"
    /\ \E outcome \in ProcessOutcomes :
          batch' =
             [batch EXCEPT
                 !.calls = Append(@, [pdf_file |-> batch.pdf_files[batch.position],
                                      outcome |-> outcome]),
                 !.results = (batch.pdf_files[batch.position] :> ResultOf(outcome)) @@ @,
                 !.position = @ + 1,
                 !.phase = AfterFile(batch.position, batch.pdf_files)]
    /\ UNCHANGED <<pdf_files, raw_text, processed_text, node, run, steps,
                   raw_pages, answer_pages, chunks, parsed, errors,
                   current_chunk_index, parsing_status, answer_key,
                   last_request_time, now, in_flight, attempts,
                   response_content, json_str, record_dict>>

BatchInit ==
    /\ batch \in {Directory(TRUE, listing) : listing \in Listings}
                     \cup {Directory(FALSE, << >>)}
    /\ pdf_files = [questions |-> MissingFile, answers |-> MissingFile]
    /\ raw_text = << >>
    /\ initial_state

BatchNext == batch_process_pdfs_begin \/ batch_process_file

BatchSpec == BatchInit /\ [][BatchNext]_vars

(***************************************************************************)
(* Properties of the controller.                                           *)
(***************************************************************************)
\* one step of the graph along the transition table: a step that leaves the
\* node, from a node other than END, follows an edge of the table
TableStep ==
    /\ node # "END"
    /\ \/ node' = node
       \/ node = "load_pdf" /\ node' = "parse_answer_key"
       \/ node = "parse_answer_key" /\ node' = "split_pages"
       \/ node = "split_pages" /\ chunks' = << >> /\ node' = "END"
       \/ node = "split_pages" /\ chunks' # << >> /\ node' = "llm_extract_node"
       \/ /\ node = "llm_extract_node" /\ node' = "assemble_json"
          /\ Len(parsed') = Len(parsed) + 1 /\ errors' = errors
       \/ /\ node = "llm_extract_node" /\ node' = "llm_fallback_node"
          /\ parsed' = parsed /\ Len(errors') = Len(errors) + 1
       \/ node = "llm_fallback_node" /\ node' = "assemble_json"
       \/ /\ node = "assemble_json" /\ node' = "llm_extract_node"
          /\ current_chunk_index' < Len(chunks)
       \/ /\ node = "assemble_json" /\ node' = "END"
          /\ current_chunk_index' >= Len(chunks)

\* C1: a run starts at load_pdf and every step that changes the node follows
\* an edge of the transition table: load_pdf -> parse_answer_key ->
\* split_pages; split_pages -> END with no chunks and -> llm_extract_node
\* otherwise; llm_extract_node -> assemble_json on success and ->
\* llm_fallback_node on failure; llm_fallback_node -> assemble_json;
\* assemble_json -> llm_extract_node while the cursor is below the number of
\* chunks and -> END otherwise; nothing changes once the node is END
C1_TransitionTable == (node = "load_pdf") /\ [][TableStep]_vars

\* C1: a run of two chunks, one extracted and one skipped, has reached END
C1_Witness ==
    /\ node = "END" /\ run = "finished"
    /\ Len(chunks) = 2 /\ Len(parsed) = 1 /\ current_chunk_index = 2

\* whether errors holds an extraction failure
SomeAttemptFailed ==
    \E i \in 1..Len(errors) : errors[i].msg = "LLM extraction failed"

\* C2: a failure of one chunk never ends the run before all later chunks
\* have been attempted: when the run has ended after some attempt failed,
\* every chunk has been attempted
C2_FailureNeverEndsRun ==
    (run # "running" /\ SomeAttemptFailed) => Len(attempts) = Len(chunks)

\* C3: in any run the reasoning capability is invoked exactly once for each
\* chunk index, in increasing order of the index from 0 on, never twice for one
\* chunk, with at most one call in flight; the call for a chunk is issued only
\* when the cursor has advanced past every earlier chunk; and a run that has
\* ended has called it for every chunk
C3_OneAttemptPerChunkInOrder ==
    /\ \A i \in 1..Len(attempts) : attempts[i].index = i - 1
    /\ Len(attempts) <= Len(chunks)
    /\ Cardinality(in_flight) <= 1
    /\ in_flight # {} =>
          in_flight = {current_chunk_index} /\ Len(attempts) = current_chunk_index + 1
    /\ in_flight = {} =>
          Len(attempts) = current_chunk_index
                          + (IF node \in {"llm_fallback_node", "assemble_json"} THEN 1 ELSE 0)
    /\ run # "running" => \A k \in 0..(Len(chunks) - 1) :
                              \E i \in 1..Len(attempts) : attempts[i].index = k

\* C4: every run ends at END with the cursor at the number of chunks
C4_RunEndsAtDone ==
    run # "running" => (node = "END" /\ current_chunk_index = Len(chunks))

\* C5: the timestamps recorded for two successive attempts differ by at least
\* RATE_LIMIT_DELAY, so n attempts span at least (n - 1) * RATE_LIMIT_DELAY
C5_AttemptsSpacedByDelay ==
    /\ \A i \in 2..Len(attempts) :
          attempts[i].recorded - attempts[i - 1].recorded >= RATE_LIMIT_DELAY
    /\ attempts # << >> =>
          attempts[Len(attempts)].recorded - attempts[1].recorded
              >= (Len(attempts) - 1) * RATE_LIMIT_DELAY

\* C5: a second attempt was held back until the delay had passed
C5_Witness ==
    /\ Len(attempts) >= 2
    /\ attempts[2].recorded - attempts[1].recorded = RATE_LIMIT_DELAY

\* C6: last_request_time is the time at which the latest attempt's call was
\* issued: it is written before the call, so it is the clock's value while
\* the call is in flight, and it is not written again when the call returns
\* or raises
C6_TimestampAtIssue ==
    /\ \A i \in 1..Len(attempts) : attempts[i].recorded = attempts[i].issued
    /\ attempts # << >> => last_request_time = attempts[Len(attempts)].issued
    /\ in_flight # {} => last_request_time = now
    /\ (in_flight = {} /\ attempts # << >>) => last_request_time < now

\* C6: the second attempt has failed and last_request_time is its issue time
C6_Witness ==
    /\ node = "llm_fallback_node"
    /\ Len(attempts) = 2
    /\ last_request_time = attempts[2].issued
    /\ last_request_time < now

\* the texts of the exceptions an attempt can end with
FailureCauses ==
    {"reasoning call raised", "No JSON found in LLM response", "JSON parsing failed",
     "validation error"}

AttemptEnds == in_flight # {} /\ in_flight' = {}

AttemptSucceeds ==
    /\ Len(parsed') = Len(parsed) + 1
    /\ SubSeq(parsed', 1, Len(parsed)) = parsed
    /\ errors' = errors
    /\ node' = "assemble_json"

AttemptFails ==
    /\ parsed' = parsed
    /\ Len(errors') = Len(errors) + 1
    /\ SubSeq(errors', 1, Len(errors)) = errors
    /\ errors'[Len(errors')].detail \in FailureCauses
    /\ node' = "llm_fallback_node"

\* C7: an attempt ends in exactly one of two ways: it fails (parsed is
\* unchanged, one error is appended to errors, the next node is
\* llm_fallback_node) or it succeeds (one record is appended to parsed, errors
\* is unchanged, the next node is assemble_json)
C7_SuccessOrFailure ==
    [][AttemptEnds => (AttemptSucceeds /\ ~AttemptFails) \/ (AttemptFails /\ ~AttemptSucceeds)]_vars

\* C7: the second attempt failed for want of a JSON object after the first
\* one appended its record
C7_Witness ==
    /\ node = "llm_fallback_node"
    /\ Len(parsed) = 1
    /\ errors # << >>
    /\ errors[Len(errors)].detail = "No JSON found in LLM response"

\* C8: the choices of every record of parsed are null or a mapping whose keys
\* are exactly A, B, C and D
C8_ChoicesNullOrExactlyABCD ==
    \A i \in 1..Len(parsed) :
        \/ parsed[i].choices.t = "null"
        \/ parsed[i].choices.t = "dict" /\ DOMAIN parsed[i].choices.kv = expected_keys

(***************************************************************************)
(* Properties of the try block's steps, read from its locals, which the    *)
(* state holds from the end of an attempt to the next node's step.         *)
(***************************************************************************)
\* the choices json.loads found in json_str, None when there are none
InputChoices == Get(json_loads(json_str).v.kv, K_choices, JNull)

HasObject(text) ==
    \E i, j \in 1..Len(text) : i < j /\ text[i] = "{" /\ text[j] = "}"

\* the index of the first '{' of text that has a '}' after it
FirstBrace(text) ==
    Min({i \in 1..Len(text) : text[i] = "{" /\ \E j \in (i + 1)..Len(text) : text[j] = "}"})

\* the index of the last '}' of text
LastBrace(text) == Max({j \in 1..Len(text) : text[j] = "}"})

\* how many of the indices i..j of text hold the character c
Count(text, i, j, c) == Cardinality({k \in i..j : text[k] = c})

\* the index of the '}' that balances the '{' at index i of text (0: none)
BalancingBrace(text, i) ==
    LET S == {j \in (i + 1)..Len(text) :
                Count(text, i, j, "{") = Count(text, i, j, "}")}
    IN  IF S = {} THEN 0 ELSE Min(S)

HasIdShape(id) ==
    /\ Len(id) = 8
    /\ SubSeq(id, 1, 5) = <<"S","A","T","-","Q">>
    /\ \A i \in 6..8 : id[i] \in Digits

\* the number an identifier of that shape ends with
IdNumber(id) == ParseInt(SubSeq(id, 6, 8))

\* a step that appends a record to parsed
AppendsRecord == Len(parsed') = Len(parsed) + 1

\* C11: the record appended for the chunk at the cursor carries the identifier
\* "SAT-Q" followed by the cursor plus one, padded with zeros to three digits,
\* whatever id the response holds; and in every state the identifiers of
\* parsed have that shape and their numbers increase strictly along the list
C11_GeneratedIds ==
    /\ [](\A i \in 1..Len(parsed) :
            /\ HasIdShape(parsed[i].id)
            /\ i > 1 => IdNumber(parsed[i - 1].id) < IdNumber(parsed[i].id))
    /\ [][AppendsRecord =>
            IdNumber(parsed'[Len(parsed')].id) = current_chunk_index + 1]_vars

\* C11: after the first chunk failed, the record of the second chunk, whose
\* response holds the id "X", is the only record and carries SAT-Q002
C11_Witness ==
    /\ node = "assemble_json"
    /\ current_chunk_index = 1
    /\ response_content = GoodObject
    /\ Len(parsed) = 1
    /\ parsed[1].id = <<"S","A","T","-","Q","0","0","2">>

\* C12: a record appended with a question number that the answer key holds
\* has the key's letter as correct, whatever the response reported
C12_AnswerKeyOverrides ==
    [][AppendsRecord =>
         LET record == parsed'[Len(parsed')]
         IN  record.question_number \in DOMAIN answer_key =>
                 record.correct = JStr(<<answer_key[record.question_number]>>)]_vars

\* C12: the response to question 2 reported D and the record holds the
\* key's B
C12_Witness ==
    /\ node = "assemble_json"
    /\ parsing_status = "success"
    /\ response_content = ReportsCorrect
    /\ 2 \in DOMAIN answer_key /\ answer_key[2] = "B"
    /\ parsed[Len(parsed)].question_number = 2
    /\ parsed[Len(parsed)].correct = JStr(<<"B">>)

\* the pages a file holds for load_pdf: none when it is missing or unreadable
PagesOf(file) == IF file.exists /\ ~file.raises THEN file.pages ELSE << >>

\* C18: when one of the two files is missing or unreadable, load_pdf records
\* an error and the state holds the pages of the file that did load
C18_KeepsPagesOfOtherFile ==
    node # "load_pdf" =>
        /\ raw_pages = PagesOf(pdf_files.questions)
        /\ answer_pages = PagesOf(pdf_files.answers)
        /\ \A file \in {pdf_files.questions, pdf_files.answers} :
              (~file.exists \/ file.raises) => errors # << >>

\* C20: a step of assemble_json adds exactly one to current_chunk_index,
\* after a success and after llm_fallback alike, and no other step changes it
C20_CursorAdvancesByOne ==
    [][IF node = "assemble_json" /\ steps' = steps + 1
       THEN current_chunk_index' = current_chunk_index + 1
       ELSE current_chunk_index' = current_chunk_index]_vars

\* C20: the cursor is at 2 after a chunk that was extracted and a chunk that
\* was skipped by llm_fallback
C20_Witness ==
    /\ current_chunk_index = 2
    /\ parsing_status = "failure"
    /\ Len(parsed) = 1
    /\ Len(attempts) = 2

(***************************************************************************)
(* Properties of parse_answer_key, read from the state it leaves.          *)
(***************************************************************************)
\* the indices of the matches ms whose number is n
MatchesOf(ms, n) == {k \in 1..Len(ms) : ParseInt(ms[k].num) = n}

\* the patterns (1..8, in the order of the list) that match the number n in t
PatternsOf(t, n) == {p \in 1..8 : MatchesOf(FindAnswerMatches(p, t, 1), n) # {}}

\* the letter, in upper case, of the first of the matches ms whose number is n
FirstLetterIn(ms, n) == Upper(ms[Min(MatchesOf(ms, n))].letter)

\* the letter of the first match for n in t: of the first pattern that
\* matches n, the match that occurs first in t
FirstLetter(t, n) == FirstLetterIn(FindAnswerMatches(Min(PatternsOf(t, n)), t, 1), n)

\* the numbers of the matches of pattern p in t
NumbersOf(p, t) ==
    LET ms == FindAnswerMatches(p, t, 1)
    IN  {ParseInt(ms[k].num) : k \in 1..Len(ms)}

\* C13: for each question number that one of the eight patterns matches, the
\* answer key holds the letter of the first match for that number, the
\* matches taken pattern by pattern in the order of the list and, for one
\* pattern, in the order of the text
C13_FirstMatchWins ==
    node = "split_pages" =>
        \A p \in 1..8 : \A n \in NumbersOf(p, AnswerText(answer_pages)) :
            /\ n \in DOMAIN answer_key
            /\ answer_key[n] = FirstLetter(AnswerText(answer_pages), n)

\* C13: of "1) b" and "1. A" the key holds A, the match of the first pattern,
\* although b comes first in the text
C13_Witness ==
    /\ node = "split_pages"
    /\ AnswerText(answer_pages) = <<"1",")"," ","b","\n","1","."," ","A","\n">>
    /\ answer_key = (1 :> "A")

\* the answer key after the loop over the matches of the eight patterns
PrimaryKey(t) == AddMatches(<< >>, AllAnswerMatches(t, 1), 1)

\* the numbers the tabular pattern matches in t
TabularNumbers(t) == NumbersOf(0, t)

C15_PositiveKeysUpperLetters ==
    \A n \in DOMAIN answer_key :
        n >= 1 /\ answer_key[n] \in {"A", "B", "C", "D"}

(***************************************************************************)
(* Properties of split_pages, read from the state it leaves.               *)
(***************************************************************************)
\* split_pages has run on a questions file of one page
SplitDone == steps = 3 /\ Len(raw_pages) = 1

\* whether chunk starts with the text word
StartsWith(chunk, word) ==
    Len(chunk) >= Len(word) /\ SubSeq(chunk, 1, Len(word)) = word

\* C16: the page text of Scenario A is split into exactly two chunks, the
\* first starting at "1." and the second at "2."
C16_ScenarioASplitsInTwo ==
    (SplitDone /\ raw_pages[1].page_content = ScenarioA) =>
        /\ Len(chunks) = 2
        /\ StartsWith(chunks[1], <<"1", ".">>)
        /\ StartsWith(chunks[2], <<"2", ".">>)

\* the candidate the content-based split makes of a page: its stripped text
Candidate == Strip(raw_pages[1].page_content)

\* the page holds no match of a question pattern, so that its only candidate
\* is the one of the content-based split
OnlyCandidate ==
    SplitDone /\ AllQuestionMatches(raw_pages[1].page_content, 1) = << >>

\* whether no exclusion phrase starts in the first EXCLUSION_WINDOW
\* characters of chunk
NoPhraseAtStart(chunk) ==
    \A p \in 1..11 : \A i \in 1..Min({Len(chunk), EXCLUSION_WINDOW}) :
        ~ExclusionAt(p, SubSeq(chunk, 1, Min({Len(chunk), EXCLUSION_WINDOW})), i)

\* C17 (as amended): the validator accepts a candidate exactly when it is at
\* least MIN_CHUNK_LENGTH characters long, holds at least MIN_CHOICES_FOUND
\* answer-choice markers and holds none of the exclusion phrases in its
\* first EXCLUSION_WINDOW characters; so a candidate with fewer markers is
\* rejected whatever its length, and every chunk of the state has passed
C17_ValidatorAccepts ==
    /\ \A i \in 1..Len(chunks) :
          /\ Len(chunks[i]) >= MIN_CHUNK_LENGTH
          /\ ChoicesFound(chunks[i]) >= MIN_CHOICES_FOUND
          /\ NoPhraseAtStart(chunks[i])
    /\ OnlyCandidate =>
          IF /\ Len(Candidate) >= MIN_CHUNK_LENGTH
             /\ ChoicesFound(Candidate) >= MIN_CHOICES_FOUND
             /\ NoPhraseAtStart(Candidate)
          THEN chunks = <<Candidate>>
          ELSE chunks = << >>

\* C17: a candidate of exactly MIN_CHUNK_LENGTH characters with three
\* markers was accepted
C17_Witness ==
    /\ OnlyCandidate
    /\ Len(Candidate) = MIN_CHUNK_LENGTH
    /\ ChoicesFound(Candidate) = MIN_CHOICES_FOUND
    /\ chunks = <<Candidate>>

\* C17 (as claimed): the validator accepts every candidate that is at least
\* MIN_CHUNK_LENGTH characters long and holds at least MIN_CHOICES_FOUND
\* markers, and rejects every candidate with fewer markers
C17_AcceptsOnMarkersAndLength ==
    OnlyCandidate =>
        /\ (Len(Candidate) >= MIN_CHUNK_LENGTH
            /\ ChoicesFound(Candidate) >= MIN_CHOICES_FOUND) => chunks = <<Candidate>>
        /\ ChoicesFound(Candidate) < MIN_CHOICES_FOUND => chunks = << >>

(***************************************************************************)
(* Properties of preprocess_math_formatting.                               *)
(***************************************************************************)
\* the input of the first case of test_math_preprocessing.py
ScenarioC ==
    <<"1", "4", "x", " ", "=", " ", "2", " ", "w", " ", "+", " ",
      "1", "9", " ", "7", "y">>

\* w in t
Contains(t, w) ==
    \E i \in 1..(Len(t) - Len(w) + 1) : SubSeq(t, i, i + Len(w) - 1) = w

\* C19: preprocess_math_formatting applied to "14x = 2 w + 19 7y" (the rule
\* list, then the SAT-pattern pass, then the year pass) returns a text that
\* contains "19/7y"
C19_RepairsSeparatedFraction ==
    raw_text = ScenarioC /\ processed_text # << >>
        => Contains(processed_text, <<"1", "9", "/", "7", "y">>)

(***************************************************************************)
(* Properties of the boundary detection of split_by_question_numbers.      *)
(***************************************************************************)
\* the starts of the matches of ms
Starts(ms) == {ms[k].start : k \in 1..Len(ms)}

\* the matches of all four patterns in the page of the state, sorted
PageMatches == SortByStart(AllQuestionMatches(raw_pages[1].page_content, 1))

\* whether every start of all_matches is a start of unique_matches or lies
\* within DUPLICATE_GAP characters after one, and the earliest is kept
KeptUnlessNearKept(all_matches, unique_matches) ==
    /\ \A s \in Starts(all_matches) :
          \/ s \in Starts(unique_matches)
          \/ \E kept \in Starts(unique_matches) :
                kept < s /\ s <= kept + DUPLICATE_GAP
    /\ all_matches # << >> => all_matches[1].start \in Starts(unique_matches)

\* C21: a boundary match is dropped only when it starts within DUPLICATE_GAP
\* characters after a previously kept match, so the earliest match of a page
\* is always kept, a question start at offset 0 included
C21_DroppedOnlyNearKeptMatch ==
    SplitDone => KeptUnlessNearKept(PageMatches, UniqueMatches(PageMatches, 1, -1))

(***************************************************************************)
(* Properties of the chunk list, read from the state split_pages leaves.   *)
(***************************************************************************)
\* whether chunk passes the three checks of the validation predicate
PassesValidation(chunk) ==
    /\ Len(chunk) >= MIN_CHUNK_LENGTH
    /\ ChoicesFound(chunk) >= MIN_CHOICES_FOUND
    /\ NoPhraseAtStart(chunk)

\* whether cs is the chunks of the pages one page after the other, where a
\* page gives the valid chunks of boundary detection, or those of the
\* content-based split exactly when boundary detection gives none
RECURSIVE InPageOrder(_, _)
BeginsWith(cs, page_chunks, pages) ==
    /\ Len(cs) >= Len(page_chunks)
    /\ SubSeq(cs, 1, Len(page_chunks)) = page_chunks
    /\ InPageOrder(pages, SubSeq(cs, Len(page_chunks) + 1, Len(cs)))

BoundaryOrFallback(text, question_chunks) ==
    IF Len(question_chunks) = 0 THEN split_by_content(text) ELSE question_chunks

InPageOrder(pages, cs) ==
    IF pages = << >> THEN cs = << >>
    ELSE BeginsWith(cs,
                    BoundaryOrFallback(Head(pages).page_content,
                                       split_by_question_numbers(Head(pages).page_content)),
                    Tail(pages))

\* C22: every chunk of the list handed on by split_pages passes the
\* validation predicate, whichever strategy produced it; a page is split by
\* the content-based splitter exactly when boundary detection gives no valid
\* chunk for it; and the chunks stand in the order of their pages
C22_ValidChunksInPageOrder ==
    /\ \A i \in 1..Len(chunks) : PassesValidation(chunks[i])
    /\ steps >= 3 => InPageOrder(raw_pages, chunks)

\* C22: a file of two pages, the first split by content and the second by
\* its question number, has given one chunk for each, in this order
C22_Witness ==
    /\ steps = 3 /\ Len(raw_pages) = 2 /\ Len(chunks) = 2
    /\ split_by_question_numbers(raw_pages[1].page_content) = << >>
    /\ chunks[1] = Strip(raw_pages[1].page_content)
    /\ split_by_question_numbers(raw_pages[2].page_content) = <<chunks[2]>>

(***************************************************************************)
(* Properties of the question number and of the correct letter of a        *)
(* record.                                                                 *)
(***************************************************************************)
\* the chunk at the cursor
CurrentChunk == chunks[current_chunk_index + 1]

\* the patterns of the boundary family that match somewhere in text
MatchingPatterns(text) == {p \in 1..4 : FindQuestionMatches(p, text, 1) # << >>}

\* the number in the leftmost match of the first pattern that matches
RecoveredNumber(text) ==
    ParseInt(FindQuestionMatches(Min(MatchingPatterns(text)), text, 1)[1].group)

\* C23: the record appended for a chunk carries the number recovered from
\* the chunk by the boundary patterns whenever one of them matches the
\* chunk, whatever number the response reported, and the number of the
\* response only when none matches
C23_RecoveredNumberOverrides ==
    [][AppendsRecord =>
         IF MatchingPatterns(CurrentChunk) # {}
         THEN parsed'[Len(parsed')].question_number = RecoveredNumber(CurrentChunk)
         ELSE parsed'[Len(parsed')].question_number
                  = IntOf(record_dict'[K_question_number])]_vars

(***************************************************************************)
(* Properties of the lists of the state during the per-chunk stages.       *)
(***************************************************************************)
\* whether the list after holds the list before, entry for entry, at its
\* front
GrowsAtEnd(before, after) ==
    Len(before) <= Len(after) /\ SubSeq(after, 1, Len(before)) = before

\* C24: once split_pages has finished, no step of llm_extract, llm_fallback
\* or assemble_json changes chunks, answer_key or a record already in
\* parsed: parsed and errors only grow by entries appended at their end
C24_StagesOnlyAppend ==
    [][node \notin {"load_pdf", "parse_answer_key", "split_pages"} =>
         /\ chunks' = chunks
         /\ answer_key' = answer_key
         /\ GrowsAtEnd(parsed, parsed')
         /\ GrowsAtEnd(errors, errors')]_vars

\* C24: the run of a document of two chunks has ended with the records of
\* both, the first in front, and with the answer key as parsed
C24_Witness ==
    /\ run = "finished" /\ node = "END"
    /\ Len(chunks) = 2 /\ Len(parsed) = 2
    /\ IdNumber(parsed[1].id) = 1 /\ IdNumber(parsed[2].id) = 2
    /\ answer_key # << >>

(***************************************************************************)
(* Properties of the run at END.                                           *)
(***************************************************************************)
\* the run has reached END
Done == run = "finished" /\ node = "END"

\* the records of parsed made for the k-th chunk, by their identifiers
RecordsOf(k) == {i \in 1..Len(parsed) : IdNumber(parsed[i].id) = k}

\* the entries of errors that name the k-th chunk
ErrorsOf(k) == {i \in 1..Len(errors) : errors[i].chunk = k}

\* the chunks without a record
FailedChunks == {k \in 1..Len(chunks) : RecordsOf(k) = {}}

\* the entries of errors that name a chunk
ChunkErrors == {i \in 1..Len(errors) : errors[i].chunk # 0}

\* C25 (as amended): at END every chunk has either exactly one record and no
\* error, or no record and exactly two errors, the one of llm_extract
\* followed by the one of llm_fallback; so the records and the failed chunks
\* add up to the chunks, and the errors that name a chunk are twice the
\* failed chunks
C25_RecordOrTwoErrors ==
    Done =>
        /\ \A k \in 1..Len(chunks) :
              \/ Cardinality(RecordsOf(k)) = 1 /\ ErrorsOf(k) = {}
              \/ /\ RecordsOf(k) = {}
                 /\ \E i \in 1..(Len(errors) - 1) :
                       /\ ErrorsOf(k) = {i, i + 1}
                       /\ errors[i].msg = "LLM extraction failed"
                       /\ errors[i + 1].msg = "Skipping due to parsing failure"
        /\ Len(parsed) + Cardinality(FailedChunks) = Len(chunks)
        /\ Cardinality(ChunkErrors) = 2 * Cardinality(FailedChunks)

\* C25: a run of two chunks has ended with the record of one and the two
\* errors of the other
C25_Witness ==
    /\ Done
    /\ Len(chunks) = 2 /\ Len(parsed) = 1
    /\ Cardinality(FailedChunks) = 1
    /\ Cardinality(ChunkErrors) = 2

\* C25 (as claimed): at END every chunk has given exactly one record or
\* exactly one error, so the errors that name a chunk are as many as the
\* failed chunks
C25_RecordOrOneError ==
    Done =>
        /\ \A k \in 1..Len(chunks) :
              \/ Cardinality(RecordsOf(k)) = 1 /\ ErrorsOf(k) = {}
              \/ RecordsOf(k) = {} /\ Cardinality(ErrorsOf(k)) = 1
        /\ Len(parsed) + Cardinality(FailedChunks) = Len(chunks)
        /\ Cardinality(ChunkErrors) = Cardinality(FailedChunks)

(***************************************************************************)
(* Properties of batch_process_pdfs.                                       *)
(***************************************************************************)
\* the names of the directory
Listed == {batch.listing[i] : i \in 1..Len(batch.listing)}

\* whether the name ends in ".pdf", in letters of either case
EndsInPdf(name) ==
    /\ Len(name) >= 4
    /\ name[Len(name) - 3] = "."
    /\ name[Len(name) - 2] \in {"p", "P"}
    /\ name[Len(name) - 1] \in {"d", "D"}
    /\ name[Len(name)] \in {"f", "F"}

\* the calls of process_pdf_and_store_in_db for the file name
CallsFor(name) == {i \in 1..Len(batch.calls) : batch.calls[i].pdf_file = name}

\* C26: when batch_process_pdfs returns, every file of the directory whose
\* name ends in .pdf (in either case) was processed exactly once and has one
\* entry in the result, (0, 0) if its processing raised and the counts it
\* returned otherwise, whatever happened to the files before it; the other
\* files were not processed and have no entry
C26_OneEntryPerPdf ==
    batch.phase = "returned" =>
        /\ DOMAIN batch.results \subseteq Listed
        /\ \A name \in Listed :
              IF EndsInPdf(name)
              THEN /\ name \in DOMAIN batch.results
                   /\ \E i \in 1..Len(batch.calls) :
                         /\ CallsFor(name) = {i}
                         /\ batch.calls[i].outcome.raises
                               => batch.results[name] = <<0, 0>>
                         /\ ~batch.calls[i].outcome.raises
                               => batch.results[name]
                                      = <<batch.calls[i].outcome.processed,
                                          batch.calls[i].outcome.stored>>
              ELSE name \notin DOMAIN batch.results /\ CallsFor(name) = {}

\* C26: a directory of two PDF files and a text file was processed, the
\* call for the first PDF file raised and the second has its counts
C26_Witness ==
    /\ batch.phase = "returned"
    /\ Len(batch.listing) = 3 /\ Len(batch.calls) = 2
    /\ batch.calls[1].outcome.raises /\ ~batch.calls[2].outcome.raises
    /\ batch.results[batch.calls[1].pdf_file] = <<0, 0>>
    /\ batch.results[batch.calls[2].pdf_file] = <<3, 2>>
    /\ <<"c", ".", "t", "x", "t">> \in Listed

(***************************************************************************)
(* Properties of the cursor at llm_extract.                                *)
(***************************************************************************)
\* C27: whenever the graph is at llm_extract_node the cursor is an index of
\* chunks, so that the lookup chunks[current_chunk_index], which stands
\* before the try block, never raises IndexError
C27_CursorIndexesChunk ==
    /\ node = "llm_extract_node" =>
          0 <= current_chunk_index /\ current_chunk_index < Len(chunks)
    /\ run # "IndexError"

\* C27: the call for the last of two chunks is in flight
C27_Witness ==
    /\ node = "llm_extract_node"
    /\ Len(chunks) = 2
    /\ current_chunk_index = Len(chunks) - 1
    /\ in_flight = {current_chunk_index}

\* C28: the correct of every record of parsed is null or the letter the
\* answer key holds for the record's question number
C28_CorrectOnlyFromAnswerKey ==
    \A i \in 1..Len(parsed) :
        \/ parsed[i].correct = JNull
        \/ /\ parsed[i].question_number \in DOMAIN answer_key
           /\ parsed[i].correct = JStr(<<answer_key[parsed[i].question_number]>>)

(***************************************************************************)
(* Properties of clean_json_string, read from the locals of the try block. *)
(***************************************************************************)
\* the object substring that re.search locates in the response
LocatedObject == JsonSearch(response_content).group

\* C29: when the object substring located in the response is valid JSON,
\* the text clean_json_string makes of it parses, and to the same value
C29_CleaningKeepsTheValue ==
    (JsonSearch(response_content).found /\ json_loads(LocatedObject).ok) =>
        json_loads(json_str) = json_loads(LocatedObject)

(***************************************************************************)
(* Properties of a response without a stimulus.                            *)
(***************************************************************************)
\* the response's object has stimulus null, or no stimulus: record_dict, as
\* validate_and_clean_record returned it, holds record_dict.get("stimulus")
NoStimulus == record_dict # << >> /\ record_dict[K_stimulus] = JNull

\* llm_extract returns
ExtractReturns == node = "llm_extract_node" /\ in_flight # {} /\ in_flight' = {}

\* C30: when the response's object has stimulus null or has no stimulus,
\* llm_extract appends no record, records one "LLM extraction failed" error
\* for the chunk, and the graph goes on to the fallback node
C30_NoStimulusFails ==
    [][(ExtractReturns /\ NoStimulus') =>
          /\ parsed' = parsed
          /\ Len(errors') = Len(errors) + 1
          /\ errors'[Len(errors')].msg = "LLM extraction failed"
          /\ errors'[Len(errors')].chunk = current_chunk_index + 1
          /\ SubSeq(errors', 1, Len(errors)) = errors
          /\ parsing_status' = "failure"
          /\ node' = "llm_fallback_node"]_vars

\* the prompt's "no complete question found" object was returned and the
\* chunk is at the fallback node with nothing appended
C30_Witness ==
    /\ NoStimulus
    /\ K_stimulus \in DOMAIN json_loads(json_str).v.kv
    /\ node = "llm_fallback_node"
    /\ parsing_status = "failure"
    /\ parsed = << >>
    /\ errors # << >>
    /\ errors[Len(errors)].detail = "validation error"
====
